---------------------------- MODULE Spec2Model ----------------------------
(***************************************************************************)
(* A model of the OpenID Connect relying-party request builders and        *)
(* response processors of oiccli/oic/requests.py, of the PKCE helper of    *)
(* oidcservice/oidc/pkce.py and of the request object helpers of           *)
(* oidcservice/oidc/utils.py; get_request_parameters is modelled from      *)
(* tests/test_10_oauth2_service.py.                                        *)
(*                                                                         *)
(* Python values are modelled as tagged records so that a string, a list   *)
(* and None can be told apart and compared:                                *)
(*   a preference value    [t |-> "str" | "list" | "none", v |-> <<...>>]   *)
(* A dict is a function whose DOMAIN is the set of keys present.           *)
(***************************************************************************)
EXTENDS Integers, Sequences, FiniteSets, TLC

VARIABLES
    \* ---- ClientInfo fields used by ProviderInfoDiscovery.match_preferences
    client_prefs,   \* cli_info.client_prefs: dict name -> value
    behaviour,      \* cli_info.behaviour: dict name -> value
    \* ---- the last match_preferences call
    pcr,            \* the provider configuration response handed to it
    m_called,       \* TRUE once match_preferences has been called
    m_err,          \* "none" or the exception the last call raised
    m_errpref,      \* the preference a ConfigurationError named
    m_allok,        \* TRUE while no call has raised
    m_repeated,     \* TRUE when the last call got the pcr of the call before it
    \* ---- ClientInfo field used by AccessTokenRequest._post_parse_response
    state2nonce,    \* cli_info.state2nonce: dict state -> nonce
    \* ---- the last AccessTokenRequest._post_parse_response call
    t_called, t_resp, t_state, t_err,
    \* ---- the last AuthorizationRequest.construct call
    a_called, a_request_args, a_kwargs, a_areq, a_err,
    \* ---- ServiceContext fields used by pkce.add_code_challenge
    config,         \* service_context.config: dict
    state_db,       \* service_context.state_db: dict state -> dict of fields
    \* ---- the last add_code_challenge call
    p_called, p_state, p_verifier, p_ret, p_err,
    p_before,       \* state_db as that call found it
    \* ---- the last get_code_verifier call
    g_called, g_state, g_ret,
    \* ---- the ClientInfo attributes RegistrationRequest reads and writes
    cli,
    \* ---- the last create_registration_request call
    rq_called, rq_kwargs, rq_req, rq_err,
    \* ---- the last RegistrationRequest._post_parse_response call
    rp_called,
    rp_given,       \* the response as it was handed in
    rp_resp,        \* the response object after the call
    rp_err,
    rp_before,      \* cli as that call found it
    \* ---- the stores the UserInfo and ID token requests read
    grant_db,       \* cli_info.grant_db: the scopes it has a token for
    id_tokens,      \* what cli_info._get_id_token finds
    \* ---- the last UserInfoRequest.construct call
    u_called, u_request_args, u_kwargs, u_req, u_err,
    u_queries,      \* the get_token calls it made
    \* ---- the last construct call of a request that needs an ID token
    i_class,        \* "" or the class of the request
    i_request_args, i_kwargs, i_req, i_err,
    i_consulted,    \* TRUE when it called _get_id_token
    \* ---- the last request_object_encryption call
    e_called, e_kwargs, e_out, e_err,
    e_keyreqs,      \* the keyjar.get_encrypt_key calls it made
    \* ---- the file system under local_dir
    f_dir,          \* TRUE when local_dir is a directory
    files,          \* the paths at which a file exists
    \* ---- the construct_request_uri call under way
    f_pc,           \* "idle", "loop" (at the while test) or "done"
    f_name, f_filename,
    f_retried,      \* TRUE when the loop body has run in this call
    f_ret,          \* the pair returned
    \* ---- the last do_request_init call: class, state, request_args, err,
    \* ---- req, pkce (what add_code_challenge returned), before (state_db
    \* ---- as the call found it)
    dri,
    authz_sent,     \* state -> code_challenge of the authorization request built
    threads,        \* thread -> kind of response it processes, the response, position
    params,         \* the get_request_parameters call: conf, endpoint, called, kwargs,
                    \* request_args, ret
    disc,           \* the discovery response processing: called, err, steps taken
    a_keys,         \* the get_signing_key calls construct made
    ui              \* the userinfo response processing: resp, called, err, out, warned

matchVars ==
    <<client_prefs, behaviour, pcr, m_called, m_err, m_errpref, m_allok, m_repeated>>
tokenVars == <<state2nonce, t_called, t_resp, t_state, t_err>>
authzVars == <<a_called, a_request_args, a_kwargs, a_areq, a_err>>
pkceVars ==
    <<config, state_db, p_called, p_state, p_verifier, p_ret, p_err, p_before,
      g_called, g_state, g_ret>>
\* the parts added after the three above
regVars ==
    <<cli, rq_called, rq_kwargs, rq_req, rq_err,
      rp_called, rp_given, rp_resp, rp_err, rp_before>>
userVars == <<u_called, u_request_args, u_kwargs, u_req, u_err, u_queries>>
idVars == <<i_class, i_request_args, i_kwargs, i_req, i_err, i_consulted>>
constructVars == <<grant_db, id_tokens, userVars, idVars>>
encVars == <<e_called, e_kwargs, e_out, e_err, e_keyreqs>>
uriVars == <<f_dir, files, f_pc, f_name, f_filename, f_retried, f_ret>>
objectVars == <<encVars, uriVars>>
lateVars == <<dri, authz_sent, threads, params, disc, a_keys, ui>>
restVars == <<pkceVars, regVars, constructVars, objectVars, lateVars>>
vars == <<matchVars, tokenVars, authzVars, restVars>>
\* what the operations of one part leave alone
notPkceVars == <<lateVars, matchVars, tokenVars, authzVars, regVars, constructVars, objectVars>>
notRegVars == <<lateVars, matchVars, tokenVars, authzVars, pkceVars, constructVars, objectVars>>
notConstructVars == <<lateVars, matchVars, tokenVars, authzVars, pkceVars, regVars, objectVars>>
\* (request_object_encryption reads behaviour, which is one of matchVars)
notObjectVars == <<lateVars, tokenVars, authzVars, pkceVars, regVars, constructVars>>

-----------------------------------------------------------------------------
(* Bounds of the model *)

\* longest list a client preference holds
MaxLen == 2
\* most values a response_type is made of
MaxTypes == 2
\* longest code verifier length a configuration asks for
MaxCvLen == 2

-----------------------------------------------------------------------------
(* Python values *)

Str(a) == [t |-> "str", v |-> <<a>>]
List(s) == [t |-> "list", v |-> s]
None == [t |-> "none", v |-> <<>>]

\* d[k] = x on a dict
Put(d, k, x) == [n \in DOMAIN d \cup {k} |-> IF n = k THEN x ELSE d[n]]

EmptyDict == [n \in {} |-> None]

\* the set of elements of a sequence
Range(s) == {s[i] : i \in 1..Len(s)}

\* every sequence over S of length at most n
SeqsUpTo(S, n) == UNION {[1..k -> S] : k \in 0..n}


-----------------------------------------------------------------------------
(* ProviderInfoDiscovery.match_preferences                                  *)

\* PREFERENCE2PROVIDER, in the order the dict literal lists (and iterates) it
PREFERENCE2PROVIDER ==
    << <<"request_object_signing_alg", "request_object_signing_alg_values_supported">>,
       <<"request_object_encryption_alg", "request_object_encryption_alg_values_supported">>,
       <<"request_object_encryption_enc", "request_object_encryption_enc_values_supported">>,
       <<"userinfo_signed_response_alg", "userinfo_signing_alg_values_supported">>,
       <<"userinfo_encrypted_response_alg", "userinfo_encryption_alg_values_supported">>,
       <<"userinfo_encrypted_response_enc", "userinfo_encryption_enc_values_supported">>,
       <<"id_token_signed_response_alg", "id_token_signing_alg_values_supported">>,
       <<"id_token_encrypted_response_alg", "id_token_encryption_alg_values_supported">>,
       <<"id_token_encrypted_response_enc", "id_token_encryption_enc_values_supported">>,
       <<"default_acr_values", "acr_values_supported">>,
       <<"subject_type", "subject_types_supported">>,
       <<"token_endpoint_auth_method", "token_endpoint_auth_methods_supported">>,
       <<"token_endpoint_auth_signing_alg", "token_endpoint_auth_signing_alg_values_supported">>,
       <<"response_types", "response_types_supported">>,
       <<"grant_types", "grant_types_supported">> >>

\* the keys of PREFERENCE2PROVIDER
KnownPrefs == {PREFERENCE2PROVIDER[i][1] : i \in 1..Len(PREFERENCE2PROVIDER)}

\* PREFERENCE2PROVIDER[_pref]
ProviderOf(_pref) ==
    LET i == CHOOSE j \in 1..Len(PREFERENCE2PROVIDER) : PREFERENCE2PROVIDER[j][1] = _pref
    IN  PREFERENCE2PROVIDER[i][2]

\* the position of _pref in the iteration over PREFERENCE2PROVIDER.items()
PrefIndex(_pref) ==
    CHOOSE j \in 1..Len(PREFERENCE2PROVIDER) : PREFERENCE2PROVIDER[j][1] = _pref

PROVIDER_DEFAULT ==
    [n \in {"token_endpoint_auth_method", "id_token_signed_response_alg"} |->
        IF n = "token_endpoint_auth_method" THEN "client_secret_basic" ELSE "RS256"]

\* oic.RegistrationRequest.c_param: the parameters whose type is a list
\* (isinstance(vtyp[0], list)) ...
RegListParams ==
    {"redirect_uris", "response_types", "grant_types", "contacts",
     "default_acr_values", "request_uris", "post_logout_redirect_uris"}

\* ... and all the parameters the schema of the registration request has
RegParams ==
    KnownPrefs \cup RegListParams \cup
    {"application_type", "client_name", "logo_uri", "client_uri", "policy_uri",
     "tos_uri", "jwks", "jwks_uri", "sector_identifier_uri", "default_max_age",
     "require_auth_time", "initiate_login_uri", "frontchannel_logout_uri"}

\* the values preferences and capabilities are made of (opaque strings)
Atoms == {"client_secret_basic", "client_secret_post"}

\* the preference names the model's clients declare: two from
\* PREFERENCE2PROVIDER (a scalar one, which has a default, and a list-typed
\* one, which has none) and three outside it (scalar in the registration
\* schema, list-typed in it, absent from it), in the order
\* client_prefs.items() yields them
PrefKeys ==
    <<"token_endpoint_auth_method", "response_types",
      "application_type", "contacts", "x_extension">>

PrefValues == {Str(a) : a \in Atoms} \cup {List(s) : s \in SeqsUpTo(Atoms, MaxLen)}

\* the model's clients declare no, one or two preferences
ClientPrefsInputs ==
    UNION {[K -> PrefValues] :
             K \in {{}} \cup {{k1, k2} : k1 \in Range(PrefKeys), k2 \in Range(PrefKeys)}}

\* One capability of a provider configuration response: the (non-empty) list
\* advertised under the name, or its absence from the response.  list_typed is
\* isinstance(pcr.c_param[name][0], list), the type the response's schema
\* gives the name.
Capabilities ==
    {[present |-> TRUE, vals |-> S, list_typed |-> TRUE] : S \in (SUBSET Atoms) \ {{}}}
    \cup {[present |-> FALSE, vals |-> {}, list_typed |-> b] : b \in BOOLEAN}

\* the provider configuration responses a client with preferences prefs can
\* tell apart: match_preferences reads pcr[_prov] for declared preferences only
PcrInputs(prefs) ==
    [{ProviderOf(k) : k \in DOMAIN prefs \cap KnownPrefs} -> Capabilities]

\* a fallback that forgets PROVIDER_DEFAULT
MissingCapabilityNoDefault(_pref, cap) ==
    IF cap.list_typed THEN List(<<>>) ELSE None

\* lines 231-238: the provider left the capability out
MissingCapability(_pref, cap) ==
    IF _pref \in DOMAIN PROVIDER_DEFAULT THEN Str(PROVIDER_DEFAULT[_pref])
    ELSE IF cap.list_typed THEN List(<<>>)
    ELSE None

\* a filter that keeps the provider's order of the values, not the client's
FilterProviderOrder(vals, _pvals) ==
    SelectSeq(<<"client_secret_basic", "client_secret_post">>,
              LAMBDA val : val \in _pvals /\ val \in Range(vals))

\* lines 248-251: the client's values the provider supports, in the client's order
Filter(vals, _pvals) == SelectSeq(vals, LAMBDA val : val \in _pvals)

\* lines 253-256: the first of the client's values the provider supports
\* (<<>> when there is none)
RECURSIVE FirstFrom(_, _, _)
FirstFrom(vals, _pvals, i) ==
    IF i > Len(vals) THEN <<>>
    ELSE IF vals[i] \in _pvals THEN <<vals[i]>>
    ELSE FirstFrom(vals, _pvals, i + 1)

\* a loop without its break: the last supported value wins
RECURSIVE LastFrom(_, _, _)
LastFrom(vals, _pvals, i) ==
    IF i < 1 THEN <<>>
    ELSE IF vals[i] \in _pvals THEN <<vals[i]>>
    ELSE LastFrom(vals, _pvals, i - 1)

LastMatch(vals, _pvals) == LastFrom(vals, _pvals, Len(vals))

FirstMatch(vals, _pvals) == FirstFrom(vals, _pvals, 1)

\* a MatchOne that appends to the list an earlier call left
MatchOneAppending(beh, _pref, vals, _pvals) ==
    IF vals.t = "str"
    THEN IF vals.v[1] \in _pvals THEN Put(beh, _pref, vals) ELSE beh
    ELSE IF _pref \in RegListParams
         THEN LET old == IF _pref \in DOMAIN beh /\ beh[_pref].t = "list"
                         THEN beh[_pref].v ELSE <<>>
              IN  Put(beh, _pref, List(old \o Filter(vals.v, _pvals)))
         ELSE LET m == FirstMatch(vals.v, _pvals)
              IN  IF m = <<>> THEN beh ELSE Put(beh, _pref, Str(m[1]))

\* lines 241-256: one preference against the capability list the provider gave
MatchOne(beh, _pref, vals, _pvals) ==
    IF vals.t = "str"
    THEN IF vals.v[1] \in _pvals THEN Put(beh, _pref, vals) ELSE beh
    ELSE IF _pref \in RegListParams
         THEN Put(beh, _pref, List(Filter(vals.v, _pvals)))
         ELSE LET m == FirstMatch(vals.v, _pvals)
              IN  IF m = <<>> THEN beh ELSE Put(beh, _pref, Str(m[1]))

\* line 258: the preference was not resolved
Unmatched(beh, _pref) == _pref \notin DOMAIN beh

\* lines 222-260: the loop over PREFERENCE2PROVIDER.items(), from entry i on
RECURSIVE MatchKnown(_, _, _, _)
MatchKnown(prefs, p, beh, i) ==
    IF i > Len(PREFERENCE2PROVIDER)
    THEN [behaviour |-> beh, err |-> "none", pref |-> ""]
    ELSE LET _pref == PREFERENCE2PROVIDER[i][1]
             _prov == PREFERENCE2PROVIDER[i][2]
         IN  IF _pref \notin DOMAIN prefs
             THEN MatchKnown(prefs, p, beh, i + 1)
             ELSE IF ~p[_prov].present
             THEN MatchKnown(prefs, p,
                             Put(beh, _pref, MissingCapability(_pref, p[_prov])), i + 1)
             ELSE LET b2 == MatchOne(beh, _pref, prefs[_pref], p[_prov].vals)
                  IN  IF Unmatched(b2, _pref)
                      THEN [behaviour |-> b2, err |-> "ConfigurationError", pref |-> _pref]
                      ELSE MatchKnown(prefs, p, b2, i + 1)

\* a copy that collapses one-element lists only
CopyValueSingletons(key, val) ==
    IF key \in RegParams \ RegListParams /\ val.t = "list" /\ Len(val.v) = 1
    THEN [err |-> "none", val |-> Str(val.v[1])]
    ELSE [err |-> "none", val |-> val]

\* lines 266-274: the value the second loop copies for key; val[0] of an
\* empty list raises IndexError, which `except KeyError` does not catch
CopyValue(key, val) ==
    IF key \notin RegParams THEN [err |-> "none", val |-> val]
    ELSE IF key \in RegListParams THEN [err |-> "none", val |-> val]
    ELSE IF val.t = "list"
         THEN IF val.v = <<>> THEN [err |-> "IndexError", val |-> val]
              ELSE [err |-> "none", val |-> Str(val.v[1])]
         ELSE [err |-> "none", val |-> val]

\* line 275: the second loop copies the preferences outside PREFERENCE2PROVIDER
Copied(key) == key \notin KnownPrefs

\* lines 262-276: the loop over client_prefs.items(), from item i on
RECURSIVE CopyRest(_, _, _)
CopyRest(prefs, beh, i) ==
    IF i > Len(PrefKeys)
    THEN [behaviour |-> beh, err |-> "none", pref |-> ""]
    ELSE LET key == PrefKeys[i]
         IN  IF key \notin DOMAIN prefs \/ key \in DOMAIN beh
             THEN CopyRest(prefs, beh, i + 1)
             ELSE LET c == CopyValue(key, prefs[key])
                  IN  IF c.err # "none"
                      THEN [behaviour |-> beh, err |-> c.err, pref |-> key]
                      ELSE CopyRest(prefs,
                                    IF Copied(key) THEN Put(beh, key, c.val) ELSE beh,
                                    i + 1)

\* lines 210-276
match_preferences(prefs, beh, p) ==
    LET k == MatchKnown(prefs, p, beh, 1)
    IN  IF k.err # "none" THEN k ELSE CopyRest(prefs, k.behaviour, 1)

\* a caller runs match_preferences on a provider configuration response
MatchPreferences ==
    /\ \E p \in PcrInputs(client_prefs) :
          \E r \in {match_preferences(client_prefs, behaviour, p)} :
              /\ behaviour' = r.behaviour
              /\ m_err' = r.err
              /\ m_errpref' = r.pref
              /\ m_allok' = (m_allok /\ r.err = "none")
              /\ pcr' = p
              /\ m_repeated' = (m_called /\ p = pcr)
    /\ m_called' = TRUE
    /\ UNCHANGED <<client_prefs, tokenVars, authzVars, restVars>>

-----------------------------------------------------------------------------
(* AccessTokenRequest._post_parse_response                                  *)

\* the state keys and the nonces of the model
States == {"s1", "s2", "s3"}
Nonces == {"n1", "n2"}

\* every dict with keys among K and values in V
Dicts(K, V) == UNION {[D -> V] : D \in SUBSET K}

\* the ID tokens a response carries: with a nonce or without one
IdTokens == Dicts({"nonce"}, Nonces)

\* the parsed responses: with an ID token or without one
TokenResponses == Dicts({"id_token"}, IdTokens)

\* a nonce check that never finds a difference
NonceMismatchNever(stored, echoed) == FALSE

\* lines 188-189: the stored nonce and the ID token's differ
NonceMismatch(stored, echoed) == stored # echoed

\* a strict _post_parse_response: an ID token for a state without a stored
\* nonce, or an ID token without a nonce, is refused
AccessToken_post_parse_strict(resp, s2n, state) ==
    IF "id_token" \notin DOMAIN resp
    THEN [err |-> "none", state2nonce |-> s2n]
    ELSE IF state \notin DOMAIN s2n \/ "nonce" \notin DOMAIN resp["id_token"]
    THEN [err |-> "ParameterError", state2nonce |-> s2n]
    ELSE IF NonceMismatch(s2n[state], resp["id_token"]["nonce"])
    THEN [err |-> "ParameterError", state2nonce |-> s2n]
    ELSE [err |-> "none", state2nonce |-> s2n]

\* lines 181-191: the exception the call raises ("none": it returns) and the
\* state2nonce it leaves.  A KeyError of resp['id_token'],
\* state2nonce[state] or _idt['nonce'] is caught and passed over.
AccessToken_post_parse_response(resp, s2n, state) ==
    IF "id_token" \notin DOMAIN resp
    THEN [err |-> "none", state2nonce |-> s2n]
    ELSE IF state \notin DOMAIN s2n
    THEN [err |-> "none", state2nonce |-> s2n]
    ELSE IF "nonce" \notin DOMAIN resp["id_token"]
    THEN [err |-> "none", state2nonce |-> s2n]
    ELSE IF NonceMismatch(s2n[state], resp["id_token"]["nonce"])
    THEN [err |-> "ParameterError", state2nonce |-> s2n]
    ELSE [err |-> "none", state2nonce |-> s2n]

\* an AccessToken response for state st is post-processed
AccessTokenPostParse ==
    /\ \E resp \in TokenResponses, st \in States :
          \E r \in {AccessToken_post_parse_response(resp, state2nonce, st)} :
              /\ t_resp' = resp
              /\ t_state' = st
              /\ t_err' = r.err
              /\ state2nonce' = r.state2nonce
    /\ t_called' = TRUE
    /\ UNCHANGED <<matchVars, authzVars, restVars>>

-----------------------------------------------------------------------------
(* AuthorizationRequest.construct                                           *)

\* Python strings whose characters matter are sequences of characters
S_code == <<"c", "o", "d", "e">>
S_token == <<"t", "o", "k", "e", "n">>
S_id_token == <<"i", "d", "_", "t", "o", "k", "e", "n">>

\* " ".join(words)
RECURSIVE Join(_)
Join(words) ==
    IF Len(words) = 0 THEN <<>>
    ELSE IF Len(words) = 1 THEN words[1]
    ELSE words[1] \o <<" ">> \o Join(Tail(words))

\* x in s, for strings
IsSubstring(x, s) ==
    \E i \in 0..(Len(s) - Len(x)) : SubSeq(s, i + 1, i + Len(x)) = x

\* x in val: a substring of a string, an element of a list
PyIn(x, val) ==
    IF val.t = "str" THEN IsSubstring(x, val.v[1])
    ELSE \E i \in 1..Len(val.v) : val.v[i] = x

\* the response types callers give: a space separated string or a list
TypeWords == UNION {[1..k -> {S_code, S_token, S_id_token}] : k \in 1..MaxTypes}
ResponseTypes == {Str(Join(w)) : w \in TypeWords} \cup {List(w) : w \in TypeWords}

\* request_args=None, and request_args=d
NoArgs == [given |-> FALSE, args |-> EmptyDict]
Args(d) == [given |-> TRUE, args |-> d]

\* the nonce a caller supplies, and the tokens rndstr(32) returns
CallerNonces == {"n1"}
RndStr == {"r1", "r2"}

\* the request_args and the keyword arguments of the model's callers
RequestArgsInputs ==
    {NoArgs} \cup
    {Args(d) : d \in {EmptyDict} \cup [{"nonce"} -> CallerNonces]
                     \cup [{"response_type"} -> ResponseTypes]}
    \cup {Args([k \in {"nonce", "response_type"} |-> IF k = "nonce" THEN n ELSE rt]) :
             n \in CallerNonces, rt \in ResponseTypes}

KwargsInputs == Dicts({"response_type"}, ResponseTypes)

\* line 80: the response type asks for a token or an ID token
AsksToken(_rt) == PyIn(S_token, _rt) \/ PyIn(S_id_token, _rt)

\* line 83: the same, for a response type given as a keyword argument
KwAsksToken(_rt) == PyIn(S_token, _rt)

\* lines 77-86: the request_args handed on, rnd being what rndstr(32) returns;
\* request_args["response_type"] of a dict without one raises KeyError
AddNonce(request_args, kwargs, rnd) ==
    IF request_args.given
    THEN IF "nonce" \notin DOMAIN request_args.args
         THEN IF "response_type" \notin DOMAIN request_args.args
              THEN [err |-> "KeyError", request_args |-> request_args]
              ELSE IF AsksToken(request_args.args["response_type"])
                   THEN [err |-> "none",
                         request_args |-> Args(Put(request_args.args, "nonce", rnd))]
                   ELSE [err |-> "none", request_args |-> request_args]
         ELSE [err |-> "none", request_args |-> request_args]
    ELSE IF "response_type" \in DOMAIN kwargs
         THEN IF KwAsksToken(kwargs["response_type"])
              THEN [err |-> "none", request_args |-> Args([k \in {"nonce"} |-> rnd])]
              ELSE [err |-> "none", request_args |-> request_args]
         ELSE [err |-> "none", request_args |-> Args([k \in {"nonce"} |-> rnd])]

\* lines 95-96: the record oauth2's construct builds: the entries of
\* request_args, and what ClientInfo supplies (tests/test_10_oauth2_service.py:
\* request_args {'foo': 'bar'} gives a record with foo, client_id and
\* redirect_uri)
BaseConstruct(request_args) ==
    LET d == request_args.args
    IN  [k \in DOMAIN d \cup {"client_id", "redirect_uri"} |->
            IF k \in DOMAIN d THEN d[k]
            ELSE IF k = "client_id" THEN "client_id"
            ELSE "https://example.com/cli/authz_cb"]

\* lines 76-143, without a request object
AuthorizationConstruct(request_args, kwargs, rnd) ==
    LET n == AddNonce(request_args, kwargs, rnd)
    IN  IF n.err # "none" THEN [err |-> n.err, areq |-> EmptyDict]
        ELSE [err |-> "none", areq |-> BaseConstruct(n.request_args)]

\* the caller's construct(cli_info, request_args, **kwargs) runs
AuthzConstruct ==
    /\ ~a_called
    /\ \E rnd \in RndStr :
          \E r \in {AuthorizationConstruct(a_request_args, a_kwargs, rnd)} :
              /\ a_areq' = r.areq
              /\ a_err' = r.err
    /\ a_called' = TRUE
    /\ UNCHANGED <<a_request_args, a_kwargs, matchVars, tokenVars, restVars>>

-----------------------------------------------------------------------------
(* oidcservice/oidc/pkce.py                                                 *)
(*                                                                         *)
(* A Python str whose characters matter is a sequence of one-character     *)
(* strings, bytes are a sequence of numbers 0..255.                        *)

\* the length add_code_challenge takes when the configuration names none
DefaultLength == 64

\* the hexadecimal digits, in the order hexdigest() uses them
HexDigits ==
    <<"0", "1", "2", "3", "4", "5", "6", "7", "8", "9",
      "a", "b", "c", "d", "e", "f">>

\* the ASCII code of a character of HexDigits
Ascii(c) ==
    LET i == CHOOSE j \in 1..16 : HexDigits[j] = c
    IN  IF i <= 10 THEN 47 + i ELSE 86 + i

\* str.encode() on a str over HexDigits
Encode(s) == [i \in 1..Len(s) |-> Ascii(s[i])]

\* the URL-safe base64 alphabet
B64Alphabet ==
    <<"A", "B", "C", "D", "E", "F", "G", "H", "I", "J", "K", "L", "M",
      "N", "O", "P", "Q", "R", "S", "T", "U", "V", "W", "X", "Y", "Z",
      "a", "b", "c", "d", "e", "f", "g", "h", "i", "j", "k", "l", "m",
      "n", "o", "p", "q", "r", "s", "t", "u", "v", "w", "x", "y", "z",
      "0", "1", "2", "3", "4", "5", "6", "7", "8", "9", "-", "_">>

\* b64e(bytes).decode(): URL-safe base64 without padding
RECURSIVE b64e(_)
b64e(bytes) ==
    LET n == Len(bytes)
        A == B64Alphabet
    IN  IF n = 0 THEN <<>>
        ELSE IF n = 1
        THEN <<A[(bytes[1] \div 4) + 1], A[(bytes[1] % 4) * 16 + 1]>>
        ELSE IF n = 2
        THEN <<A[(bytes[1] \div 4) + 1],
               A[(bytes[1] % 4) * 16 + (bytes[2] \div 16) + 1],
               A[(bytes[2] % 16) * 4 + 1]>>
        ELSE <<A[(bytes[1] \div 4) + 1],
               A[(bytes[1] % 4) * 16 + (bytes[2] \div 16) + 1],
               A[(bytes[2] % 16) * 4 + (bytes[3] \div 64) + 1],
               A[(bytes[3] % 64) + 1]>>
             \o b64e(SubSeq(bytes, 4, n))

\* CC_METHOD: the transformation methods that have a hash function
CC_METHOD == {"S256", "S384", "S512"}

\* the methods a configuration may name: those of CC_METHOD and one outside
Methods == CC_METHOD \cup {"plain"}

RECURSIVE SumBytes(_)
SumBytes(bytes) ==
    IF bytes = <<>> THEN 0 ELSE Head(bytes) + SumBytes(Tail(bytes))

\* CC_METHOD[method](bytes).digest(): a fixed function of the method and the
\* bytes, standing in for the SHA-2 function, with the digest cut to 3 bytes
hash_method(method, bytes) ==
    LET salt == IF method = "S256" THEN 1 ELSE IF method = "S384" THEN 2 ELSE 3
        sum == SumBytes(bytes)
        first == IF bytes = <<>> THEN 0 ELSE bytes[1]
        last == IF bytes = <<>> THEN 0 ELSE bytes[Len(bytes)]
    IN  << (sum * 31 + salt) % 256,
           (sum + 7 * Len(bytes) + 13 * salt) % 256,
           (first * 3 + last + salt) % 256 >>

\* .hexdigest(): two hexadecimal digits for each byte of the digest
hexdigest(digest) ==
    [i \in 1..(2 * Len(digest)) |->
        IF i % 2 = 1 THEN HexDigits[(digest[(i + 1) \div 2] \div 16) + 1]
        ELSE HexDigits[(digest[i \div 2] % 16) + 1]]

\* lines 27-32: the code challenge add_code_challenge computes
code_challenge(method, code_verifier) ==
    b64e(Encode(hexdigest(hash_method(method, Encode(code_verifier)))))

\* the session states of the model
PStates == {"s1", "s2"}

\* the characters a verifier of the model is drawn from
VChars == {"a", "b"}

\* unreserved(size): a random string of size characters.  The model draws it
\* from the one-letter strings over VChars and the string that alternates
unreserved(size) ==
    {[i \in 1..size |-> c] : c \in VChars}
        \cup {[i \in 1..size |-> IF i % 2 = 1 THEN "a" ELSE "b"]}

\* config['code_challenge'] of the model: a configured length is MaxCvLen
CodeChallengeConfigs ==
    UNION {{[k \in D |-> IF k = "length" THEN MaxCvLen ELSE m] : m \in Methods} :
           D \in SUBSET {"length", "method"}}

ConfigInputs ==
    {EmptyDict} \cup {[k \in {"code_challenge"} |-> c] : c \in CodeChallengeConfigs}

\* lines 11-15
CvLen(cfg) ==
    IF "code_challenge" \in DOMAIN cfg /\ "length" \in DOMAIN cfg["code_challenge"]
    THEN cfg["code_challenge"]["length"]
    ELSE DefaultLength

\* lines 20-24
CcMethod(cfg) ==
    IF "code_challenge" \in DOMAIN cfg /\ "method" \in DOMAIN cfg["code_challenge"]
    THEN cfg["code_challenge"]["method"]
    ELSE "S256"

\* state_db.add_info(state, **kwargs): the fields are merged into the record
\* of the state, which is created when the state has none
add_info(db, state, fields) ==
    LET old == IF state \in DOMAIN db THEN db[state] ELSE EmptyDict
    IN  Put(db, state,
            [k \in DOMAIN old \cup DOMAIN fields |->
                IF k \in DOMAIN fields THEN fields[k] ELSE old[k]])

\* what add_code_challenge hands to add_info
PkceFields(cv, method) ==
    [k \in {"code_verifier", "code_challenge_method"} |->
        IF k = "code_verifier" THEN cv ELSE method]

\* what add_code_challenge returns
PkceReturn(cc, method) ==
    [k \in {"code_challenge", "code_challenge_method"} |->
        IF k = "code_challenge" THEN cc ELSE method]

\* add_code_challenge that writes nothing to the state store
add_code_challenge_unstored(cfg, db, state, cv) ==
    IF CcMethod(cfg) \notin CC_METHOD
    THEN [err |-> "Unsupported", named |-> CcMethod(cfg), ret |-> EmptyDict,
          state_db |-> db]
    ELSE [err |-> "none", named |-> "",
          ret |-> PkceReturn(code_challenge(CcMethod(cfg), cv), CcMethod(cfg)),
          state_db |-> db]

\* add_code_challenge that stores the verifier before it looks the method up
add_code_challenge_store_first(cfg, db, state, cv) ==
    IF CcMethod(cfg) \notin CC_METHOD
    THEN [err |-> "Unsupported", named |-> CcMethod(cfg), ret |-> EmptyDict,
          state_db |-> add_info(db, state, PkceFields(cv, CcMethod(cfg)))]
    ELSE [err |-> "none", named |-> "",
          ret |-> PkceReturn(code_challenge(CcMethod(cfg), cv), CcMethod(cfg)),
          state_db |-> add_info(db, state, PkceFields(cv, CcMethod(cfg)))]

\* no exception, and an exception with what its message names
NoError == [err |-> "none", named |-> ""]

\* lines 6-41, cv being what unreserved(cv_len) returned
add_code_challenge(cfg, db, state, cv) ==
    IF CcMethod(cfg) \notin CC_METHOD
    THEN [err |-> "Unsupported", named |-> CcMethod(cfg), ret |-> EmptyDict,
          state_db |-> db]
    ELSE [err |-> "none", named |-> "",
          ret |-> PkceReturn(code_challenge(CcMethod(cfg), cv), CcMethod(cfg)),
          state_db |-> add_info(db, state, PkceFields(cv, CcMethod(cfg)))]

\* lines 44-45
get_code_verifier(db, state) ==
    IF state \in DOMAIN db /\ "code_verifier" \in DOMAIN db[state]
    THEN [err |-> "none", v |-> db[state]["code_verifier"]]
    ELSE [err |-> "KeyError", v |-> <<>>]

\* add_code_challenge(service_context, state) runs
AddCodeChallenge ==
    /\ \E st \in PStates, cv \in unreserved(CvLen(config)) :
          \E r \in {add_code_challenge(config, state_db, st, cv)} :
              /\ p_state' = st
              /\ p_verifier' = cv
              /\ p_ret' = r.ret
              /\ p_err' = [err |-> r.err, named |-> r.named]
              /\ state_db' = r.state_db
    /\ p_called' = TRUE
    /\ p_before' = state_db
    /\ UNCHANGED <<config, g_called, g_state, g_ret>>
    /\ UNCHANGED notPkceVars

\* get_code_verifier(service_context, state) runs
GetCodeVerifier ==
    /\ \E st \in PStates :
          /\ g_state' = st
          /\ g_ret' = get_code_verifier(state_db, st)
    /\ g_called' = TRUE
    /\ UNCHANGED <<config, state_db, p_called, p_state, p_verifier, p_ret,
                   p_err, p_before>>
    /\ UNCHANGED notPkceVars

-----------------------------------------------------------------------------
(* RegistrationRequest                                                      *)
(*                                                                         *)
(* cli is the ClientInfo: a dict from the names of the attributes that are *)
(* set to their values.                                                    *)

\* the value a source ("option", "behaviour", "cli_info", "response",
\* "configured") holds under a name
SourceValue(name, source) == List(<<name, source>>)

\* the registration parameters the sources of the model supply, and a keyword
\* argument that is no registration parameter
SuppliedParams ==
    {"redirect_uris", "post_logout_redirect_uris", "application_type", "request_uris"}

RegKwargsInputs ==
    UNION {{[k \in D |-> SourceValue(k, "option")]} : D \in SUBSET (SuppliedParams \cup {"state"})}

RegBehaviourInputs ==
    UNION {{[k \in D |-> SourceValue(k, "behaviour")]} : D \in SUBSET SuppliedParams}

\* cli_info.provider_info: require_request_uri_registration absent, True or False
ProviderInfos ==
    {EmptyDict} \cup
    {[k \in {"require_request_uri_registration"} |-> b] : b \in BOOLEAN}

\* the ClientInfo a registration request is built from
RegCliInputs ==
    UNION {{[k \in D \cup {"provider_info"} |->
                IF k = "provider_info" THEN pi ELSE SourceValue(k, "cli_info")] :
               pi \in ProviderInfos} :
           D \in SUBSET {"redirect_uris", "post_logout_redirect_uris"}}

\* cli_info.generate_request_uris(cli_info.requests_dir): fresh URIs
RequestUris == {List(<<"request_uris", r>>) : r \in {"r1", "r2"}}

\* a loop that asks behaviour first
FromSourcesBehaviourFirst(kwargs, beh) ==
    [p \in {q \in RegParams : q \in DOMAIN kwargs \/ q \in DOMAIN beh} |->
        IF p \in DOMAIN beh THEN beh[p] ELSE kwargs[p]]

\* lines 295-302: every schema parameter from kwargs, else from behaviour
FromSources(kwargs, beh) ==
    [p \in {q \in RegParams : q \in DOMAIN kwargs \/ q \in DOMAIN beh} |->
        IF p \in DOMAIN kwargs THEN kwargs[p] ELSE beh[p]]

\* lines 304-310 and 312-316: the attribute of cli_info when req lacks the
\* parameter and cli_info has the attribute
FromCli(req, c, prop) ==
    IF prop \notin DOMAIN req /\ prop \in DOMAIN c THEN Put(req, prop, c[prop])
    ELSE req

\* lines 318-325
WithRequestUris(req, c, uris) ==
    IF "require_request_uri_registration" \in DOMAIN c["provider_info"]
       /\ c["provider_info"]["require_request_uri_registration"] = TRUE
    THEN Put(req, "request_uris", uris)
    ELSE req

\* create_registration_request that leaves redirect_uris out when no source has it
create_registration_request_lenient(c, beh, kwargs, uris) ==
    [err |-> "none",
     req |-> WithRequestUris(
                 FromCli(FromCli(FromSources(kwargs, beh), c,
                                 "post_logout_redirect_uris"),
                         c, "redirect_uris"),
                 c, uris)]

\* lines 287-327
create_registration_request(c, beh, kwargs, uris) ==
    LET req == FromCli(FromSources(kwargs, beh), c, "post_logout_redirect_uris")
    IN  IF "redirect_uris" \notin DOMAIN req /\ "redirect_uris" \notin DOMAIN c
        THEN [err |-> "MissingRequiredAttribute", req |-> EmptyDict]
        ELSE [err |-> "none",
              req |-> WithRequestUris(FromCli(req, c, "redirect_uris"), c, uris)]

\* create_registration_request(cli_info, **kwargs) runs
CreateRegistrationRequest ==
    /\ \E kwargs \in RegKwargsInputs, uris \in RequestUris :
          \E r \in {create_registration_request(cli, behaviour, kwargs, uris)} :
              /\ rq_kwargs' = kwargs
              /\ rq_req' = r.req
              /\ rq_err' = r.err
    /\ rq_called' = TRUE
    /\ UNCHANGED <<cli, rp_called, rp_given, rp_resp, rp_err, rp_before>>
    /\ UNCHANGED notRegVars

\* the parameters of a registration response the processing looks at
RespKeys ==
    {"client_id", "client_secret", "client_secret_expires_at",
     "registration_access_token", "token_endpoint_auth_method"}

RegistrationResponses == UNION {{[k \in D |-> SourceValue(k, "response")]} : D \in SUBSET RespKeys}

\* the attributes response processing writes
RegFields ==
    {"client_id", "client_secret", "registration_expires",
     "registration_access_token"}

\* the ClientInfo a registration response is processed on
RespCliInputs == UNION {{[k \in D |-> SourceValue(k, "configured")]} : D \in SUBSET RegFields}

\* lines 330-333: the response object once the default is in
Defaulted(resp) ==
    IF "token_endpoint_auth_method" \in DOMAIN resp THEN resp
    ELSE Put(resp, "token_endpoint_auth_method", "client_secret_basic")

\* lines 335-344
SetSecret(c, resp) ==
    IF "client_secret" \notin DOMAIN resp THEN c
    ELSE IF "client_secret_expires_at" \notin DOMAIN resp
    THEN Put(c, "client_secret", resp["client_secret"])
    ELSE Put(Put(c, "client_secret", resp["client_secret"]),
             "registration_expires", resp["client_secret_expires_at"])

\* lines 345-349
SetAccessToken(c, resp) ==
    IF "registration_access_token" \notin DOMAIN resp THEN c
    ELSE Put(c, "registration_access_token", resp["registration_access_token"])

\* response processing that stores the response as the provider sent it
Registration_post_parse_no_default(resp, c) ==
    IF "client_id" \notin DOMAIN resp
    THEN [err |-> "KeyError", resp |-> resp,
          cli |-> Put(c, "registration_response", resp)]
    ELSE [err |-> "none", resp |-> resp,
          cli |-> SetAccessToken(
                      SetSecret(Put(Put(c, "registration_response", resp),
                                    "client_id", resp["client_id"]),
                                resp),
                      resp)]

\* response processing that takes the expiry whenever the response has one
Registration_post_parse_any_expiry(resp, c) ==
    IF "client_id" \notin DOMAIN resp
    THEN [err |-> "KeyError", resp |-> Defaulted(resp),
          cli |-> Put(c, "registration_response", Defaulted(resp))]
    ELSE LET c1 == SetAccessToken(
                       SetSecret(Put(Put(c, "registration_response", Defaulted(resp)),
                                     "client_id", resp["client_id"]),
                                 resp),
                       resp)
         IN  [err |-> "none", resp |-> Defaulted(resp),
              cli |-> IF "client_secret_expires_at" \in DOMAIN resp
                      THEN Put(c1, "registration_expires",
                               resp["client_secret_expires_at"])
                      ELSE c1]

\* lines 329-348: _post_parse_response; resp is the response object after
\* the call, which cli_info.registration_response refers to
Registration_post_parse_response(resp, c) ==
    IF "client_id" \notin DOMAIN resp
    THEN [err |-> "KeyError", resp |-> Defaulted(resp),
          cli |-> Put(c, "registration_response", Defaulted(resp))]
    ELSE [err |-> "none", resp |-> Defaulted(resp),
          cli |-> SetAccessToken(
                      SetSecret(Put(Put(c, "registration_response", Defaulted(resp)),
                                    "client_id", resp["client_id"]),
                                resp),
                      resp)]

\* a registration response is post-processed
RegistrationPostParse ==
    /\ \E resp \in RegistrationResponses :
          \E r \in {Registration_post_parse_response(resp, cli)} :
              /\ rp_given' = resp
              /\ rp_resp' = r.resp
              /\ rp_err' = r.err
              /\ cli' = r.cli
    /\ rp_called' = TRUE
    /\ rp_before' = cli
    /\ UNCHANGED <<rq_called, rq_kwargs, rq_req, rq_err>>
    /\ UNCHANGED notRegVars

-----------------------------------------------------------------------------
(* UserInfoRequest.construct                                                *)

\* the scopes tokens are stored and asked for
Scopes == {"openid", "profile"}

\* a stored token, as cli_info.grant_db.get_token returns it
Token(scope) == [access_token |-> <<"access_token", scope>>, scope |-> scope]

\* cli_info.grant_db: the scopes a valid token is stored for
GrantDbInputs == SUBSET Scopes

\* the request_args and the keyword arguments of the model's callers
UserInfoArgsInputs ==
    {NoArgs, Args(EmptyDict),
     Args([k \in {"access_token"} |-> <<"access_token", "caller">>]),
     Args([k \in {"foo"} |-> <<"bar">>])}

UserInfoKwargsInputs == Dicts({"scope"}, {"profile"})

\* cli_info.grant_db.get_token(**kwargs): the token stored for the scope, or None
get_token(db, kwargs) ==
    IF kwargs["scope"] \in db
    THEN [found |-> TRUE, token |-> Token(kwargs["scope"])]
    ELSE [found |-> FALSE, token |-> EmptyDict]

\* lines 367-368
WithScope(kwargs) ==
    IF "scope" \in DOMAIN kwargs THEN kwargs ELSE Put(kwargs, "scope", "openid")

\* construct that asks the store whatever request_args holds
UserInfo_construct_always_asking(request_args, kwargs, db) ==
    IF ~get_token(db, WithScope(kwargs)).found
    THEN [err |-> "MissingParameter", req |-> EmptyDict,
          queries |-> <<WithScope(kwargs)>>]
    ELSE [err |-> "none",
          req |-> BaseConstruct(Args(Put(request_args.args, "access_token",
                      get_token(db, WithScope(kwargs)).token.access_token))),
          queries |-> <<WithScope(kwargs)>>]

\* lines 360-375; queries are the get_token calls made
UserInfo_construct(request_args, kwargs, db) ==
    IF "access_token" \in DOMAIN request_args.args
    THEN [err |-> "none", req |-> BaseConstruct(Args(request_args.args)),
          queries |-> <<>>]
    ELSE IF ~get_token(db, WithScope(kwargs)).found
    THEN [err |-> "MissingParameter", req |-> EmptyDict,
          queries |-> <<WithScope(kwargs)>>]
    ELSE [err |-> "none",
          req |-> BaseConstruct(Args(Put(request_args.args, "access_token",
                      get_token(db, WithScope(kwargs)).token.access_token))),
          queries |-> <<WithScope(kwargs)>>]

\* UserInfoRequest.construct(cli_info, request_args, **kwargs) runs
UserInfoConstruct ==
    /\ \E ra \in UserInfoArgsInputs, kw \in UserInfoKwargsInputs :
          \E r \in {UserInfo_construct(ra, kw, grant_db)} :
              /\ u_request_args' = ra
              /\ u_kwargs' = kw
              /\ u_req' = r.req
              /\ u_err' = r.err
              /\ u_queries' = r.queries
    /\ u_called' = TRUE
    /\ UNCHANGED <<grant_db, id_tokens, idVars>>
    /\ UNCHANGED notConstructVars

-----------------------------------------------------------------------------
(* set_id_token and the three requests that use it                          *)

\* the request classes whose construct calls set_id_token
IdTokenRequests == {"CheckSessionRequest", "CheckIDRequest", "EndSessionRequest"}

\* what cli_info._get_id_token has to return: nothing or the stored ID token
IdTokenInputs == Dicts({"id_token"}, {<<"id_token", "stored">>})

IdArgsInputs ==
    {NoArgs, Args(EmptyDict)}
        \cup {Args([k \in {p} |-> <<"id_token", "caller">>]) :
                 p \in {"id_token", "id_token_hint"}}

IdKwargsInputs == Dicts({"prop"}, {"id_token_hint"})

\* cli_info._get_id_token(**kwargs): the ID token, or None
get_id_token(tokens) ==
    IF "id_token" \in DOMAIN tokens
    THEN [found |-> TRUE, token |-> tokens["id_token"]]
    ELSE [found |-> FALSE, token |-> <<>>]

\* lines 442-445
Prop(kwargs) == IF "prop" \in DOMAIN kwargs THEN kwargs["prop"] ELSE "id_token"

\* set_id_token that takes the accessor's token over the caller's
set_id_token_overwriting(tokens, request_args, kwargs) ==
    IF ~get_id_token(tokens).found
    THEN [err |-> "MissingParameter", request_args |-> EmptyDict, consulted |-> TRUE]
    ELSE [err |-> "none",
          request_args |-> Put(request_args.args, Prop(kwargs),
                               get_id_token(tokens).token),
          consulted |-> TRUE]

\* lines 438-455; consulted tells whether _get_id_token was called
set_id_token(tokens, request_args, kwargs) ==
    IF Prop(kwargs) \in DOMAIN request_args.args
    THEN [err |-> "none", request_args |-> request_args.args, consulted |-> FALSE]
    ELSE IF ~get_id_token(tokens).found
    THEN [err |-> "MissingParameter", request_args |-> EmptyDict, consulted |-> TRUE]
    ELSE [err |-> "none",
          request_args |-> Put(request_args.args, Prop(kwargs),
                               get_id_token(tokens).token),
          consulted |-> TRUE]

\* lines 466-468, 478-480, 490-492: set_id_token, then the base construct
IdTokenRequest_construct(tokens, request_args, kwargs) ==
    LET s == set_id_token(tokens, request_args, kwargs)
    IN  IF s.err # "none"
        THEN [err |-> s.err, req |-> EmptyDict, consulted |-> s.consulted]
        ELSE [err |-> "none", req |-> BaseConstruct(Args(s.request_args)),
              consulted |-> s.consulted]

\* construct(cli_info, request_args, **kwargs) of the request class runs
IdTokenConstruct(class) ==
    /\ \E ra \in IdArgsInputs, kw \in IdKwargsInputs :
          \E r \in {IdTokenRequest_construct(id_tokens, ra, kw)} :
              /\ i_request_args' = ra
              /\ i_kwargs' = kw
              /\ i_req' = r.req
              /\ i_err' = r.err
              /\ i_consulted' = r.consulted
    /\ i_class' = class
    /\ UNCHANGED <<grant_db, id_tokens, userVars>>
    /\ UNCHANGED notConstructVars

CheckSessionConstruct == IdTokenConstruct("CheckSessionRequest")

CheckIDConstruct == IdTokenConstruct("CheckIDRequest")

EndSessionConstruct == IdTokenConstruct("EndSessionRequest")

-----------------------------------------------------------------------------
(* oidcservice/oidc/utils.py: request_object_encryption                     *)

\* the signed request object handed in
SignedObject == [k \in {"payload"} |-> "signed request object"]

\* the algorithms the options and the behaviour of the model name
OptionAlg == "RSA1_5"
BehaviourAlg == "A128KW"
OptionEnc == "A128CBC-HS256"
BehaviourEnc == "A256GCM"

\* the keyword arguments of the model's callers
EncKwargsInputs ==
    UNION {{[k \in D |->
                IF k = "request_object_encryption_alg" THEN OptionAlg
                ELSE IF k = "request_object_encryption_enc" THEN OptionEnc
                ELSE IF k = "enc_kid" THEN kid
                ELSE "https://op.example.org"] : kid \in {"", "kid1"}} :
           D \in SUBSET {"request_object_encryption_alg",
                         "request_object_encryption_enc", "enc_kid", "target"}}

\* service_context.behaviour as far as request_object_encryption reads it
EncBehaviourInputs ==
    UNION {{[k \in D |->
                IF k = "request_object_encryption_alg" THEN BehaviourAlg
                ELSE BehaviourEnc]} :
           D \in SUBSET {"request_object_encryption_alg",
                         "request_object_encryption_enc"}}

\* jwe.alg2keytype
alg2keytype(alg) ==
    IF alg = "RSA1_5" THEN "RSA" ELSE IF alg = "A128KW" THEN "oct" ELSE "EC"

\* lines 10-25: the value of an option, else of behaviour
Resolve(name, kwargs, beh) ==
    IF name \in DOMAIN kwargs THEN [found |-> TRUE, v |-> kwargs[name]]
    ELSE IF name \in DOMAIN beh THEN [found |-> TRUE, v |-> beh[name]]
    ELSE [found |-> FALSE, v |-> ""]

\* lines 30-33
EncKid(kwargs) == IF "enc_kid" \in DOMAIN kwargs THEN kwargs["enc_kid"] ELSE ""

\* lines 38-45: the get_encrypt_key call, with kid only when there is one
KeyRequest(kty, kwargs) ==
    IF EncKid(kwargs) # ""
    THEN [k \in {"kty", "owner", "kid"} |->
             IF k = "kty" THEN kty
             ELSE IF k = "owner" THEN kwargs["target"] ELSE EncKid(kwargs)]
    ELSE [k \in {"kty", "owner"} |-> IF k = "kty" THEN kty ELSE kwargs["target"]]

\* lines 27-47: the JWE made of msg with the keys the key jar returned
Encrypted(msg, alg, enc, request) ==
    [k \in DOMAIN msg \cup {"alg", "enc", "keys"} |->
        IF k = "alg" THEN alg
        ELSE IF k = "enc" THEN enc
        ELSE IF k = "keys" THEN request
        ELSE msg[k]]

\* request_object_encryption that asks for the key before it looks for target
request_object_encryption_key_first(msg, beh, kwargs) ==
    LET alg == Resolve("request_object_encryption_alg", kwargs, beh)
        enc == Resolve("request_object_encryption_enc", kwargs, beh)
    IN  IF ~alg.found
        THEN [err |-> "none", out |-> msg, key_requests |-> <<>>]
        ELSE IF ~enc.found
        THEN [err |-> "MissingRequiredAttribute", out |-> EmptyDict,
              key_requests |-> <<>>]
        ELSE IF "target" \notin DOMAIN kwargs
        THEN [err |-> "MissingRequiredAttribute", out |-> EmptyDict,
              key_requests |-> <<[k \in {"kty"} |-> alg2keytype(alg.v)]>>]
        ELSE [err |-> "none",
              out |-> Encrypted(msg, alg.v, enc.v,
                                KeyRequest(alg2keytype(alg.v), kwargs)),
              key_requests |-> <<KeyRequest(alg2keytype(alg.v), kwargs)>>]

\* lines 9-47; key_requests are the get_encrypt_key calls made
request_object_encryption(msg, beh, kwargs) ==
    LET alg == Resolve("request_object_encryption_alg", kwargs, beh)
        enc == Resolve("request_object_encryption_enc", kwargs, beh)
    IN  IF ~alg.found
        THEN [err |-> "none", out |-> msg, key_requests |-> <<>>]
        ELSE IF ~enc.found \/ "target" \notin DOMAIN kwargs
        THEN [err |-> "MissingRequiredAttribute", out |-> EmptyDict,
              key_requests |-> <<>>]
        ELSE [err |-> "none",
              out |-> Encrypted(msg, alg.v, enc.v,
                                KeyRequest(alg2keytype(alg.v), kwargs)),
              key_requests |-> <<KeyRequest(alg2keytype(alg.v), kwargs)>>]

\* request_object_encryption(msg, service_context, **kwargs) runs
RequestObjectEncryption ==
    /\ \E kw \in EncKwargsInputs :
          \E r \in {request_object_encryption(SignedObject, behaviour, kw)} :
              /\ e_kwargs' = kw
              /\ e_out' = r.out
              /\ e_err' = r.err
              /\ e_keyreqs' = r.key_requests
    /\ e_called' = TRUE
    /\ UNCHANGED <<behaviour, uriVars>>
    /\ UNCHANGED <<client_prefs, pcr, m_called, m_err, m_errpref, m_allok, m_repeated>>
    /\ UNCHANGED notObjectVars

-----------------------------------------------------------------------------
(* oidcservice/oidc/utils.py: construct_request_uri                         *)

\* the arguments of the model's caller
LocalDir == <<"r", "e", "q">>
BasePath == <<"h", "t", "t", "p", "s", ":", "/", "/", "r", "p", "/">>

\* rndstr(size): a random string of size characters, drawn in the model from
\* the one-letter strings over two letters
rndstr(size) == {[i \in 1..size |-> c] : c \in {"a", "b"}}

Jwt == <<".", "j", "w", "t">>

\* os.path.join(dir, name)
PathJoin(dir, name) == dir \o <<"/">> \o name

\* the files local_dir may hold when construct_request_uri is called
FileInputs ==
    SUBSET ({PathJoin(LocalDir, t \o Jwt) : t \in rndstr(10)}
              \cup {PathJoin(LocalDir, t) : t \in rndstr(10)})

\* lines 60-65: the directory is made when it is missing, the first name is drawn
CruStart ==
    /\ f_pc \in {"idle", "done"}
    /\ \E t \in rndstr(10) :
          /\ f_name' = t \o Jwt
          /\ f_filename' = PathJoin(LocalDir, t \o Jwt)
    /\ f_dir' = TRUE
    /\ f_pc' = "loop"
    /\ f_retried' = FALSE
    /\ f_ret' = <<>>
    /\ UNCHANGED <<files, encVars>>
    /\ UNCHANGED <<matchVars, notObjectVars>>

\* lines 66-68: a file of that name exists, another name is drawn
CruRetry ==
    /\ f_pc = "loop"
    /\ f_filename \in files
    /\ \E t \in rndstr(10) :
          /\ f_name' = t
          /\ f_filename' = PathJoin(LocalDir, t)
    /\ f_retried' = TRUE
    /\ UNCHANGED <<f_dir, files, f_pc, f_ret, encVars>>
    /\ UNCHANGED <<matchVars, notObjectVars>>

\* lines 66, 69-70: no file of that name exists, the pair is returned
CruReturn ==
    /\ f_pc = "loop"
    /\ f_filename \notin files
    /\ f_ret' = <<f_filename, BasePath \o f_name>>
    /\ f_pc' = "done"
    /\ UNCHANGED <<f_dir, files, f_name, f_filename, f_retried, encVars>>
    /\ UNCHANGED <<matchVars, notObjectVars>>

-----------------------------------------------------------------------------
(* AuthorizationRequest.do_request_init, AccessTokenRequest.do_request_init  *)

\* the configurations the requests are built under: no PKCE, PKCE with the
\* default method, PKCE with a method CC_METHOD lacks
InitConfigInputs ==
    {EmptyDict} \cup
    {[k \in {"code_challenge"} |-> c] :
        c \in {[n \in {"length"} |-> MaxCvLen],
               [n \in {"length", "method"} |->
                   IF n = "length" THEN MaxCvLen ELSE "plain"]}}

\* the request_args of the model's callers: None, a dict without
\* response_type, a dict with response_type 'code'
InitArgsInputs ==
    {NoArgs, Args(EmptyDict), Args([k \in {"response_type"} |-> Str(S_code)])}

\* dict.update
Update(d, e) ==
    [k \in DOMAIN d \cup DOMAIN e |-> IF k \in DOMAIN e THEN e[k] ELSE d[k]]

\* the record oauth2's AccessTokenRequest builds from request_args
\* (tests/test_10_oauth2_service.py:80-97)
TokenConstruct(request_args) ==
    Update([k \in {"client_id", "client_secret", "grant_type", "code"} |->
               IF k = "client_id" THEN "client_id"
               ELSE IF k = "client_secret" THEN "password"
               ELSE IF k = "grant_type" THEN "authorization_code"
               ELSE "access_code"],
           request_args.args)

\* the base class's do_request_init: the request its construct builds
BaseRequestInit(class, request_args, rnd) ==
    IF class = "AuthorizationRequest"
    THEN AuthorizationConstruct(request_args, EmptyDict, rnd)
    ELSE [err |-> "none", areq |-> TokenConstruct(request_args)]

\* lines 151-153 and 172-174: cli_info.add_code_challenge() when PKCE is configured
InitChallenge(cfg, db, state, cv) ==
    IF "code_challenge" \in DOMAIN cfg THEN add_code_challenge(cfg, db, state, cv)
    ELSE [err |-> "none", named |-> "", ret |-> EmptyDict, state_db |-> db]

\* lines 145-158 and 166-179: pkce is what add_code_challenge returned;
\* request_args.update on None raises AttributeError
do_request_init(class, cfg, db, state, request_args, cv, rnd) ==
    LET p == InitChallenge(cfg, db, state, cv)
    IN  IF p.err # "none"
        THEN [err |-> p.err, req |-> EmptyDict, pkce |-> EmptyDict,
              state_db |-> p.state_db]
        ELSE IF "code_challenge" \in DOMAIN cfg /\ ~request_args.given
        THEN [err |-> "AttributeError", req |-> EmptyDict, pkce |-> p.ret,
              state_db |-> p.state_db]
        ELSE LET c == BaseRequestInit(
                          class,
                          IF "code_challenge" \in DOMAIN cfg
                          THEN Args(Update(request_args.args, p.ret))
                          ELSE request_args,
                          rnd)
             IN  [err |-> c.err, req |-> c.areq, pkce |-> p.ret,
                  state_db |-> p.state_db]

\* do_request_init of the class runs for a state
DoRequestInit(class) ==
    /\ \E st \in PStates, ra \in InitArgsInputs, cv \in unreserved(CvLen(config)) :
          \E r \in {do_request_init(class, config, state_db, st, ra, cv, "r1")} :
              /\ dri' = [class |-> class, state |-> st, request_args |-> ra,
                         err |-> r.err, req |-> r.req, pkce |-> r.pkce,
                         before |-> state_db]
              /\ state_db' = r.state_db
              /\ UNCHANGED <<threads, params, disc, a_keys, ui>>
              /\ authz_sent' =
                    IF class = "AuthorizationRequest" /\ r.err = "none"
                       /\ "code_challenge" \in DOMAIN r.req
                    THEN Put(authz_sent, st, r.req["code_challenge"])
                    ELSE authz_sent
    /\ UNCHANGED <<config, p_called, p_state, p_verifier, p_ret, p_err, p_before,
                   g_called, g_state, g_ret>>
    /\ UNCHANGED <<matchVars, tokenVars, authzVars, regVars, constructVars,
                   objectVars>>

AuthorizationDoRequestInit == DoRequestInit("AuthorizationRequest")

AccessTokenDoRequestInit == DoRequestInit("AccessTokenRequest")

-----------------------------------------------------------------------------
(* Registration and ProviderInfoDiscovery responses processed by two        *)
(* threads on one ClientInfo                                                *)

Threads == {1, 2}

\* what thread t's registration response carries under a name
ThreadValue(name, t) == SourceValue(name, IF t = 1 THEN "first" ELSE "second")

\* the registration responses thread t may have received
ThreadResponses(t) ==
    {[k \in D |-> ThreadValue(k, t)] :
        D \in {{"client_id"}, {"client_id", "client_secret"},
               {"client_id", "client_secret", "token_endpoint_auth_method"}}}

\* the preferences of the client the threads share
SharedPrefs ==
    [k \in {"token_endpoint_auth_method", "response_types"} |->
        List(<<"client_secret_basic", "client_secret_post">>)]

\* the provider configuration responses a thread may have received: every
\* capability present
ThreadPcrs == {p \in PcrInputs(SharedPrefs) : \A n \in DOMAIN p : p[n].present}

\* the declared preferences in the order the first loop of match_preferences
\* meets them
RECURSIVE MatchOrder(_, _)
MatchOrder(prefs, i) ==
    IF i > Len(PREFERENCE2PROVIDER) THEN <<>>
    ELSE IF PREFERENCE2PROVIDER[i][1] \in DOMAIN prefs
         THEN <<PREFERENCE2PROVIDER[i][1]>> \o MatchOrder(prefs, i + 1)
         ELSE MatchOrder(prefs, i + 1)

\* lines 222-256: one pass of the first loop, for a declared preference
MatchStep(prefs, p, beh, _pref) ==
    IF ~p[ProviderOf(_pref)].present
    THEN Put(beh, _pref, MissingCapability(_pref, p[ProviderOf(_pref)]))
    ELSE MatchOne(beh, _pref, prefs[_pref], p[ProviderOf(_pref)].vals)

\* a thread about to process a registration response, a provider
\* configuration response
RegistrationJob(resp) ==
    [kind |-> "Registration", pc |-> "store", i |-> 0, resp |-> resp, pcr |-> EmptyDict]

DiscoveryJob(p) ==
    [kind |-> "ProviderInfoDiscovery", pc |-> "match", i |-> 1, resp |-> EmptyDict, pcr |-> p]

Jobs(t) ==
    {RegistrationJob(resp) : resp \in ThreadResponses(t)}
    \cup {DiscoveryJob(p) : p \in ThreadPcrs}

At(t, kind, pc) == threads[t].kind = kind /\ threads[t].pc = pc

Goto(t, pc) == threads' = [threads EXCEPT ![t].pc = pc]

ThreadFrame ==
    UNCHANGED <<client_prefs, pcr, m_called, m_err, m_errpref, m_allok, m_repeated,
                rq_called, rq_kwargs, rq_req, rq_err,
                rp_called, rp_given, rp_resp, rp_err, rp_before,
                dri, authz_sent, params, disc, a_keys, ui,
                tokenVars, authzVars, pkceVars, constructVars, objectVars>>

\* line 330: cli_info.registration_response = resp
RegStore(t) ==
    /\ At(t, "Registration", "store")
    /\ cli' = Put(cli, "registration_response", threads[t].resp)
    /\ Goto(t, "default")
    /\ UNCHANGED behaviour /\ ThreadFrame

\* lines 331-333: the default, written into the response
\* cli_info.registration_response refers to at this moment
RegDefault(t) ==
    /\ At(t, "Registration", "default")
    /\ cli' = Put(cli, "registration_response", Defaulted(cli["registration_response"]))
    /\ Goto(t, "client_id")
    /\ UNCHANGED behaviour /\ ThreadFrame

\* line 334: cli_info.client_id = resp["client_id"]
RegClientId(t) ==
    /\ At(t, "Registration", "client_id")
    /\ IF "client_id" \in DOMAIN threads[t].resp
       THEN /\ cli' = Put(cli, "client_id", threads[t].resp["client_id"])
            /\ Goto(t, "client_secret")
       ELSE /\ cli' = cli
            /\ Goto(t, "done")
    /\ UNCHANGED behaviour /\ ThreadFrame

\* lines 335-344
RegSecret(t) ==
    /\ At(t, "Registration", "client_secret")
    /\ cli' = SetSecret(cli, threads[t].resp)
    /\ Goto(t, "access_token")
    /\ UNCHANGED behaviour /\ ThreadFrame

\* lines 345-348
RegAccessToken(t) ==
    /\ At(t, "Registration", "access_token")
    /\ cli' = SetAccessToken(cli, threads[t].resp)
    /\ Goto(t, "done")
    /\ UNCHANGED behaviour /\ ThreadFrame

\* lines 222-260: one pass of the loop over PREFERENCE2PROVIDER.items()
DiscMatch(t) ==
    /\ At(t, "ProviderInfoDiscovery", "match")
    /\ \E order \in {MatchOrder(client_prefs, 1)} :
          IF threads[t].i > Len(order)
          THEN /\ behaviour' = behaviour
               /\ Goto(t, "copy")
          ELSE \E b \in {MatchStep(client_prefs, threads[t].pcr, behaviour,
                                   order[threads[t].i])} :
                  /\ behaviour' = b
                  /\ threads' =
                        [threads EXCEPT
                            ![t].i = @ + 1,
                            ![t].pc = IF Unmatched(b, order[threads[t].i])
                                      THEN "done" ELSE "match"]
    /\ UNCHANGED cli /\ ThreadFrame

\* lines 262-276: the loop over client_prefs.items()
DiscCopy(t) ==
    /\ At(t, "ProviderInfoDiscovery", "copy")
    /\ \E r \in {CopyRest(client_prefs, behaviour, 1)} :
          /\ behaviour' = r.behaviour
          /\ Goto(t, IF r.err = "none" THEN "generic" ELSE "done")
    /\ UNCHANGED cli /\ ThreadFrame

\* lines 207-208: the base class's post-processing, which writes none of
\* behaviour, registration_response, client_id
DiscGeneric(t) ==
    /\ At(t, "ProviderInfoDiscovery", "generic")
    /\ Goto(t, "done")
    /\ UNCHANGED <<cli, behaviour>> /\ ThreadFrame

-----------------------------------------------------------------------------
(* AccessTokenRequest.get_request_parameters                                *)

AuthnMethods == {"client_secret_basic", "client_secret_post"}

\* the service configurations: none, or a default_authn_method
ServiceConfInputs == Dicts({"default_authn_method"}, AuthnMethods)

\* the token endpoints a service is set up with
Endpoints == {"https://example.com/authorize", "https://example.com/token"}

\* the keyword arguments of the model's callers: a method is always selected,
\* by the caller or by the configuration
ParamsKwargsInputs(conf) ==
    {k \in Dicts({"authn_method"}, AuthnMethods) :
        "authn_method" \in DOMAIN k \/ "default_authn_method" \in DOMAIN conf}

ParamsArgsInputs ==
    UNION {{[k \in D |-> <<k, "caller">>]} : D \in SUBSET {"redirect_uri", "code", "foo"}}

\* the method selected by name: the caller's, else the configured default
AuthnMethod(conf, kwargs) ==
    IF "authn_method" \in DOMAIN kwargs THEN kwargs["authn_method"]
    ELSE conf["default_authn_method"]

\* d without the key k
Without(d, k) == [n \in DOMAIN d \ {k} |-> d[n]]

\* HTTP basic authentication with the client's id and secret
BasicAuth(req) == <<"Basic", req["client_id"], req["client_secret"]>>

\* get_request_parameters that authenticates without touching the body
get_request_parameters_secret_kept(conf, kwargs, endpoint, request_args) ==
    LET req == TokenConstruct(Args(request_args))
    IN  [url |-> endpoint, method |-> "POST", body |-> req,
         headers |-> [h \in {"Authorization"} |-> BasicAuth(req)]]

\* tests/test_10_oauth2_service.py:99-115, 188-209: the request is built,
\* authenticated by the selected method, and bound to the endpoint
get_request_parameters(conf, kwargs, endpoint, request_args) ==
    LET req == TokenConstruct(Args(request_args))
    IN  IF AuthnMethod(conf, kwargs) = "client_secret_basic"
        THEN [url |-> endpoint, method |-> "POST",
              body |-> Without(req, "client_secret"),
              headers |-> [h \in {"Authorization"} |-> BasicAuth(req)]]
        ELSE [url |-> endpoint, method |-> "POST", body |-> req,
              headers |-> EmptyDict]

\* a caller asks for the parameters of the HTTP request
GetRequestParameters ==
    /\ ~params.called
    /\ \E kw \in ParamsKwargsInputs(params.conf), ra \in ParamsArgsInputs :
          params' = [params EXCEPT
                        !.called = TRUE, !.kwargs = kw, !.request_args = ra,
                        !.ret = get_request_parameters(params.conf, kw,
                                                       params.endpoint, ra)]
    /\ UNCHANGED <<dri, authz_sent, threads, disc, a_keys, ui>>
    /\ UNCHANGED <<matchVars, tokenVars, authzVars, pkceVars, regVars,
                   constructVars, objectVars>>

-----------------------------------------------------------------------------
(* ProviderInfoDiscovery._post_parse_response                               *)

\* response processing that goes on to the generic post-processing whatever
\* match_preferences did
Discovery_post_parse_unconditional(prefs, beh, p) ==
    LET m == match_preferences(prefs, beh, p)
    IN  [matched |-> m, err |-> "none",
         steps |-> <<"match_preferences", "_post_parse_response">>]

\* lines 205-208: match_preferences, then the base class's
\* _post_parse_response; an exception of the first ends the call
Discovery_post_parse_response(prefs, beh, p) ==
    LET m == match_preferences(prefs, beh, p)
    IN  IF m.err # "none"
        THEN [matched |-> m, err |-> m.err, steps |-> <<"match_preferences">>]
        ELSE [matched |-> m, err |-> "none",
              steps |-> <<"match_preferences", "_post_parse_response">>]

\* a provider configuration response is post-processed
DiscoveryPostParse ==
    /\ ~disc.called
    /\ \E p \in PcrInputs(client_prefs) :
          \E r \in {Discovery_post_parse_response(client_prefs, behaviour, p)} :
              /\ behaviour' = r.matched.behaviour
              /\ m_err' = r.matched.err
              /\ m_errpref' = r.matched.pref
              /\ m_allok' = (m_allok /\ r.matched.err = "none")
              /\ pcr' = p
              /\ disc' = [called |-> TRUE, err |-> r.err, steps |-> r.steps]
    /\ m_called' = TRUE
    /\ UNCHANGED <<client_prefs, m_repeated, dri, authz_sent, threads, params, a_keys, ui>>
    /\ UNCHANGED <<tokenVars, authzVars, pkceVars, regVars, constructVars, objectVars>>

-----------------------------------------------------------------------------
(* AuthorizationRequest.construct with a request object                     *)

\* the signing algorithms the options and the behaviour of the model name
SigningAlgs == {"none", "RS256"}

\* the keyword arguments of the model's callers: a transmission mode named
\* by request_method, by request_param, a signing algorithm
WrapKwargsInputs ==
    UNION {{[k \in D |->
                IF k = "request_method" THEN m
                ELSE IF k = "request_param" THEN p
                ELSE alg] :
               m \in {"file", "request"}, p \in {"request_uri", "request"},
               alg \in SigningAlgs} :
           D \in SUBSET {"request_method", "request_param",
                         "request_object_signing_alg"}}

WrapArgsInputs == {NoArgs, Args([k \in {"response_type"} |-> Str(S_code)])}

\* cli_info.behaviour as far as construct reads it
WrapBehaviourInputs == Dicts({"request_object_signing_alg"}, SigningAlgs)

\* lines 88-93: request_param is a local name; request_method leaves kwargs
DropRequestMethod(kwargs) ==
    [k \in DOMAIN kwargs \ {"request_method"} |-> kwargs[k]]

\* lines 99-113: the option, else behaviour's entry, else "none"
SigningAlg(kwargs, beh) ==
    IF "request_object_signing_alg" \in DOMAIN kwargs
    THEN kwargs["request_object_signing_alg"]
    ELSE IF "algorithm" \in DOMAIN kwargs THEN kwargs["algorithm"]
    ELSE IF "request_object_signing_alg" \in DOMAIN beh
    THEN beh["request_object_signing_alg"]
    ELSE "none"

\* jws.alg2keytype
jws_alg2keytype(alg) ==
    IF alg = "RS256" THEN "RSA" ELSE IF alg = "HS256" THEN "oct" ELSE "EC"

\* lines 115-122: the get_signing_key calls made
SigningKeyRequests(kwargs, alg) ==
    IF "keys" \notin DOMAIN kwargs /\ alg # "none"
    THEN <<[kty |-> jws_alg2keytype(alg)]>>
    ELSE <<>>

\* lines 76-143; key_requests are the get_signing_key calls made.  Line 98
\* looks for request_param among the keyword arguments; line 127 calls
\* request_object_encryption without its second positional argument
\* (oidcservice/oidc/utils.py:9), a TypeError
AuthorizationRequest_construct(request_args, kwargs, beh, rnd) ==
    LET kw == DropRequestMethod(kwargs)
        c == AuthorizationConstruct(request_args, kw, rnd)
    IN  IF c.err # "none"
        THEN [err |-> c.err, areq |-> EmptyDict, key_requests |-> <<>>]
        ELSE IF "request_param" \notin DOMAIN kw
        THEN [err |-> "none", areq |-> c.areq, key_requests |-> <<>>]
        ELSE [err |-> "TypeError", areq |-> EmptyDict,
              key_requests |-> SigningKeyRequests(kw, SigningAlg(kw, beh))]

\* the caller's construct(cli_info, request_args, **kwargs) runs
ConstructWithObject ==
    /\ ~a_called
    /\ \E rnd \in RndStr :
          \E r \in {AuthorizationRequest_construct(a_request_args, a_kwargs,
                                                   behaviour, rnd)} :
              /\ a_areq' = r.areq
              /\ a_err' = r.err
              /\ a_keys' = r.key_requests
    /\ a_called' = TRUE
    /\ UNCHANGED <<a_request_args, a_kwargs, matchVars, tokenVars>>
    /\ UNCHANGED <<dri, authz_sent, threads, params, disc, ui>>
    /\ UNCHANGED <<pkceVars, regVars, constructVars, objectVars>>

-----------------------------------------------------------------------------
(* UserInfoRequest._post_parse_response                                     *)
(*                                                                         *)
(* _claim_sources is a sequence of <<source, spec>> pairs in the order     *)
(* items() yields them; spec["JWT"] and spec["endpoint"] hold the claims   *)
(* the token decodes to and the endpoint returns.                          *)

\* the claims a source delivers
Delivered == Dicts({"address", "phone"}, {"delivered"})

\* one claim source: aggregated (a JWT) or distributed (an endpoint)
ClaimSpecs == {[k \in {kind} |-> d] : kind \in {"JWT", "endpoint"}, d \in Delivered}

\* _claim_sources: none, one, or an aggregated one followed by a distributed one
ClaimSourcesInputs ==
    {<<>>} \cup {<< <<"src1", s>> >> : s \in ClaimSpecs}
    \cup {<< <<"src1", [k \in {"JWT"} |-> [n \in {"address"} |-> "delivered"]]>>,
             <<"src2", [k \in {"endpoint"} |-> d]>> >> :
             d \in {[n \in {"address"} |-> "later"], [n \in {"phone"} |-> "later"]}}

\* _claim_names: the source each claim name is declared for
ClaimNamesInputs ==
    {[n \in {"address"} |-> "src1"], [n \in {"phone"} |-> "src1"]}

\* the claims the provider sent directly
PlainClaims ==
    {[n \in {"sub"} |-> "sub"],
     [n \in {"sub", "address"} |-> IF n = "sub" THEN "sub" ELSE "placeholder"]}

\* the parsed userinfo responses of the model
UserInfoResponses ==
    UNION {{u, Put(u, "_claim_names", names),
            Put(u, "_claim_sources", srcs),
            Put(Put(u, "_claim_names", names), "_claim_sources", srcs)} :
           u \in PlainClaims, names \in ClaimNamesInputs, srcs \in ClaimSourcesInputs}

\* lines 387-389 and 423-424: the claim names declared for the source
ClaimsOf(userinfo, csrc) ==
    {value \in DOMAIN userinfo["_claim_names"] : userinfo["_claim_names"][value] = csrc}

\* lines 382-399 and 404-433: the loop over _claim_sources.items(), from
\* item i on, for the sources that have the key kind; userinfo["_claim_names"]
\* of a record without one raises KeyError
RECURSIVE Resolve_claims(_, _, _, _)
Resolve_claims(userinfo, sources, i, kind) ==
    IF i > Len(sources) THEN [err |-> "none", userinfo |-> userinfo, warned |-> FALSE]
    ELSE IF kind \notin DOMAIN sources[i][2]
    THEN Resolve_claims(userinfo, sources, i + 1, kind)
    ELSE IF "_claim_names" \notin DOMAIN userinfo
    THEN [err |-> "KeyError", userinfo |-> userinfo, warned |-> FALSE]
    ELSE LET r == Resolve_claims(Update(userinfo, sources[i][2][kind]),
                                 sources, i + 1, kind)
         IN  [r EXCEPT !.warned =
                  @ \/ ClaimsOf(userinfo, sources[i][1]) # DOMAIN sources[i][2][kind]]

\* lines 380-401: userinfo["_claim_sources"] of a record without one raises
\* KeyError
unpack_aggregated_claims(userinfo) ==
    IF "_claim_sources" \notin DOMAIN userinfo
    THEN [err |-> "KeyError", userinfo |-> userinfo, warned |-> FALSE]
    ELSE IF userinfo["_claim_sources"] = <<>>
    THEN [err |-> "none", userinfo |-> userinfo, warned |-> FALSE]
    ELSE Resolve_claims(userinfo, userinfo["_claim_sources"], 1, "JWT")

\* lines 403-435
fetch_distributed_claims(userinfo) ==
    IF "_claim_sources" \notin DOMAIN userinfo
    THEN [err |-> "KeyError", userinfo |-> userinfo, warned |-> FALSE]
    ELSE Resolve_claims(userinfo, userinfo["_claim_sources"], 1, "endpoint")

\* lines 377-379
UserInfo_post_parse_response(resp) ==
    LET a == unpack_aggregated_claims(resp)
    IN  IF a.err # "none" THEN a
        ELSE LET d == fetch_distributed_claims(a.userinfo)
             IN  [d EXCEPT !.warned = @ \/ a.warned]

\* a userinfo response is post-processed
UserInfoPostParse ==
    /\ ~ui.called
    /\ \E r \in {UserInfo_post_parse_response(ui.resp)} :
          ui' = [ui EXCEPT !.called = TRUE, !.err = r.err, !.out = r.userinfo,
                           !.warned = r.warned]
    /\ UNCHANGED <<dri, authz_sent, threads, params, disc, a_keys>>
    /\ UNCHANGED <<matchVars, tokenVars, authzVars, pkceVars, regVars,
                   constructVars, objectVars>>

-----------------------------------------------------------------------------
(* Idle values of the parts a specification leaves alone *)

MatchIdle ==
    /\ client_prefs = EmptyDict /\ behaviour = EmptyDict /\ pcr = EmptyDict
    /\ m_called = FALSE /\ m_err = "none" /\ m_errpref = "" /\ m_allok = TRUE
    /\ m_repeated = FALSE

TokenIdle ==
    /\ state2nonce = EmptyDict /\ t_called = FALSE /\ t_resp = EmptyDict
    /\ t_state = "" /\ t_err = "none"

AuthzIdle ==
    /\ a_called = FALSE /\ a_request_args = NoArgs /\ a_kwargs = EmptyDict
    /\ a_areq = EmptyDict /\ a_err = "none"

PkceIdle ==
    /\ config = EmptyDict /\ state_db = EmptyDict
    /\ p_called = FALSE /\ p_state = "" /\ p_verifier = <<>>
    /\ p_ret = EmptyDict /\ p_err = NoError /\ p_before = EmptyDict
    /\ g_called = FALSE /\ g_state = "" /\ g_ret = EmptyDict

RegRequestIdle ==
    rq_called = FALSE /\ rq_kwargs = EmptyDict /\ rq_req = EmptyDict /\ rq_err = "none"

RegResponseIdle ==
    /\ rp_called = FALSE /\ rp_given = EmptyDict /\ rp_resp = EmptyDict
    /\ rp_err = "none" /\ rp_before = EmptyDict

RegIdle == cli = EmptyDict /\ RegRequestIdle /\ RegResponseIdle

UserInfoIdle ==
    /\ u_called = FALSE /\ u_request_args = NoArgs /\ u_kwargs = EmptyDict
    /\ u_req = EmptyDict /\ u_err = "none" /\ u_queries = <<>>

IdTokenIdle ==
    /\ i_class = "" /\ i_request_args = NoArgs /\ i_kwargs = EmptyDict
    /\ i_req = EmptyDict /\ i_err = "none" /\ i_consulted = FALSE

ConstructIdle ==
    grant_db = {} /\ id_tokens = EmptyDict /\ UserInfoIdle /\ IdTokenIdle

EncIdle ==
    /\ e_called = FALSE /\ e_kwargs = EmptyDict /\ e_out = EmptyDict
    /\ e_err = "none" /\ e_keyreqs = <<>>

UriIdle ==
    /\ f_dir = FALSE /\ files = {} /\ f_pc = "idle" /\ f_name = <<>>
    /\ f_filename = <<>> /\ f_retried = FALSE /\ f_ret = <<>>

ObjectIdle == EncIdle /\ UriIdle

NoCall ==
    [class |-> "", state |-> "", request_args |-> NoArgs, err |-> "none",
     req |-> EmptyDict, pkce |-> EmptyDict, before |-> EmptyDict]

NoParams(conf, endpoint) ==
    [conf |-> conf, endpoint |-> endpoint, called |-> FALSE, kwargs |-> EmptyDict,
     request_args |-> EmptyDict, ret |-> EmptyDict]

RequestInitIdle == dri = NoCall /\ authz_sent = EmptyDict

ThreadsIdle == threads = EmptyDict

ParamsIdle == params = NoParams(EmptyDict, "")

DiscIdle ==
    disc = [called |-> FALSE, err |-> "none", steps |-> <<>>]

NoUserInfo(resp) ==
    [resp |-> resp, called |-> FALSE, err |-> "none", out |-> EmptyDict,
     warned |-> FALSE]

\* no construct with a request object, no userinfo response
LastIdle == a_keys = <<>> /\ ui = NoUserInfo(EmptyDict)

LateIdle == RequestInitIdle /\ ThreadsIdle /\ ParamsIdle /\ DiscIdle /\ LastIdle

RestIdle == PkceIdle /\ RegIdle /\ ConstructIdle /\ ObjectIdle /\ LateIdle

-----------------------------------------------------------------------------
(* Preference matching on one ClientInfo *)

InitMatch ==
    /\ client_prefs \in ClientPrefsInputs
    /\ behaviour = EmptyDict
    /\ pcr = EmptyDict
    /\ m_called = FALSE /\ m_err = "none" /\ m_errpref = "" /\ m_allok = TRUE
    /\ m_repeated = FALSE
    /\ TokenIdle /\ AuthzIdle /\ RestIdle

NextMatch == MatchPreferences

SpecMatch == InitMatch /\ [][NextMatch]_vars

-----------------------------------------------------------------------------
(* AccessToken responses against the nonces stored for the states *)

InitToken ==
    /\ state2nonce \in Dicts(States, Nonces)
    /\ t_called = FALSE /\ t_resp = EmptyDict /\ t_state = "" /\ t_err = "none"
    /\ MatchIdle /\ AuthzIdle /\ RestIdle

NextToken == AccessTokenPostParse

SpecToken == InitToken /\ [][NextToken]_vars

-----------------------------------------------------------------------------
(* Authorization request construction *)

InitAuthz ==
    /\ a_request_args \in RequestArgsInputs
    /\ a_kwargs \in KwargsInputs
    /\ a_called = FALSE /\ a_areq = EmptyDict /\ a_err = "none"
    /\ MatchIdle /\ TokenIdle /\ RestIdle

NextAuthz == AuthzConstruct

SpecAuthz == InitAuthz /\ [][NextAuthz]_vars

-----------------------------------------------------------------------------
(* PKCE on one ServiceContext *)

\* the state stores the model starts from
StateDbInputs ==
    {[s \in D |-> IF s = "s1" THEN EmptyDict ELSE [k \in {"iss"} |-> "issuer"]] :
        D \in SUBSET PStates}

InitPkce ==
    /\ config \in ConfigInputs
    /\ state_db \in StateDbInputs
    /\ p_called = FALSE /\ p_state = "" /\ p_verifier = <<>>
    /\ p_ret = EmptyDict /\ p_err = NoError /\ p_before = EmptyDict
    /\ g_called = FALSE /\ g_state = "" /\ g_ret = EmptyDict
    /\ MatchIdle /\ TokenIdle /\ AuthzIdle /\ RegIdle /\ ConstructIdle /\ ObjectIdle /\ LateIdle

NextPkce == AddCodeChallenge \/ GetCodeVerifier

SpecPkce == InitPkce /\ [][NextPkce]_vars

-----------------------------------------------------------------------------
(* Registration requests built on one ClientInfo *)

InitRegRequest ==
    /\ cli \in RegCliInputs
    /\ behaviour \in RegBehaviourInputs
    /\ client_prefs = EmptyDict /\ pcr = EmptyDict
    /\ m_called = FALSE /\ m_err = "none" /\ m_errpref = "" /\ m_allok = TRUE
    /\ m_repeated = FALSE
    /\ RegRequestIdle /\ RegResponseIdle
    /\ TokenIdle /\ AuthzIdle /\ PkceIdle /\ ConstructIdle /\ ObjectIdle /\ LateIdle

NextRegRequest == CreateRegistrationRequest

SpecRegRequest == InitRegRequest /\ [][NextRegRequest]_vars

-----------------------------------------------------------------------------
(* Registration responses processed on one ClientInfo *)

InitRegResponse ==
    /\ cli \in RespCliInputs
    /\ RegRequestIdle /\ RegResponseIdle
    /\ MatchIdle /\ TokenIdle /\ AuthzIdle /\ PkceIdle /\ ConstructIdle /\ ObjectIdle /\ LateIdle

NextRegResponse == RegistrationPostParse

SpecRegResponse == InitRegResponse /\ [][NextRegResponse]_vars

-----------------------------------------------------------------------------
(* UserInfo, CheckSession, CheckID and EndSession requests built on one    *)
(* ClientInfo                                                              *)

InitConstruct ==
    /\ grant_db \in GrantDbInputs
    /\ id_tokens \in IdTokenInputs
    /\ UserInfoIdle /\ IdTokenIdle
    /\ MatchIdle /\ TokenIdle /\ AuthzIdle /\ PkceIdle /\ RegIdle /\ ObjectIdle /\ LateIdle

NextConstruct ==
    \/ UserInfoConstruct
    \/ CheckSessionConstruct
    \/ CheckIDConstruct
    \/ EndSessionConstruct

SpecConstruct == InitConstruct /\ [][NextConstruct]_vars

-----------------------------------------------------------------------------
(* Request objects: encryption, and the file a request_uri names *)

InitObject ==
    /\ behaviour \in EncBehaviourInputs
    /\ client_prefs = EmptyDict /\ pcr = EmptyDict
    /\ m_called = FALSE /\ m_err = "none" /\ m_errpref = "" /\ m_allok = TRUE
    /\ m_repeated = FALSE
    /\ EncIdle
    /\ f_dir \in BOOLEAN
    /\ files \in FileInputs
    /\ f_dir = FALSE => files = {}
    /\ f_pc = "idle" /\ f_name = <<>> /\ f_filename = <<>>
    /\ f_retried = FALSE /\ f_ret = <<>>
    /\ TokenIdle /\ AuthzIdle /\ PkceIdle /\ RegIdle /\ ConstructIdle /\ LateIdle

NextObject ==
    \/ RequestObjectEncryption
    \/ CruStart
    \/ CruRetry
    \/ CruReturn

SpecObject == InitObject /\ [][NextObject]_vars

-----------------------------------------------------------------------------
(* Authorization and AccessToken requests initialised on one ClientInfo *)

InitRequestInit ==
    /\ config \in InitConfigInputs
    /\ state_db \in StateDbInputs
    /\ p_called = FALSE /\ p_state = "" /\ p_verifier = <<>>
    /\ p_ret = EmptyDict /\ p_err = NoError /\ p_before = EmptyDict
    /\ g_called = FALSE /\ g_state = "" /\ g_ret = EmptyDict
    /\ RequestInitIdle /\ ThreadsIdle /\ ParamsIdle /\ DiscIdle /\ LastIdle
    /\ MatchIdle /\ TokenIdle /\ AuthzIdle /\ RegIdle /\ ConstructIdle /\ ObjectIdle

NextRequestInit == AuthorizationDoRequestInit \/ AccessTokenDoRequestInit

SpecRequestInit == InitRequestInit /\ [][NextRequestInit]_vars

-----------------------------------------------------------------------------
(* Two threads processing responses on one ClientInfo *)

InitThreads ==
    /\ threads \in {[t \in Threads |-> IF t = 1 THEN j1 ELSE j2] :
                       j1 \in Jobs(1), j2 \in Jobs(2)}
    /\ client_prefs = SharedPrefs
    /\ behaviour = EmptyDict
    /\ cli = EmptyDict
    /\ pcr = EmptyDict
    /\ m_called = FALSE /\ m_err = "none" /\ m_errpref = "" /\ m_allok = TRUE
    /\ m_repeated = FALSE
    /\ RegRequestIdle /\ RegResponseIdle
    /\ RequestInitIdle /\ ParamsIdle /\ DiscIdle /\ LastIdle
    /\ TokenIdle /\ AuthzIdle /\ PkceIdle /\ ConstructIdle /\ ObjectIdle

NextThreads ==
    \E t \in Threads :
        \/ RegStore(t)
        \/ RegDefault(t)
        \/ RegClientId(t)
        \/ RegSecret(t)
        \/ RegAccessToken(t)
        \/ DiscMatch(t)
        \/ DiscCopy(t)
        \/ DiscGeneric(t)

SpecThreads == InitThreads /\ [][NextThreads]_vars

-----------------------------------------------------------------------------
(* The parameters of an access token request *)

InitParams ==
    /\ params \in {NoParams(conf, endpoint) :
                      conf \in ServiceConfInputs, endpoint \in Endpoints}
    /\ RequestInitIdle /\ ThreadsIdle /\ DiscIdle /\ LastIdle
    /\ MatchIdle /\ TokenIdle /\ AuthzIdle
    /\ PkceIdle /\ RegIdle /\ ConstructIdle /\ ObjectIdle

NextParams == GetRequestParameters

SpecParams == InitParams /\ [][NextParams]_vars

-----------------------------------------------------------------------------
(* A provider configuration response processed on one ClientInfo *)

InitDiscovery ==
    /\ client_prefs \in ClientPrefsInputs
    /\ behaviour = EmptyDict
    /\ pcr = EmptyDict
    /\ m_called = FALSE /\ m_err = "none" /\ m_errpref = "" /\ m_allok = TRUE
    /\ m_repeated = FALSE
    /\ DiscIdle /\ RequestInitIdle /\ ThreadsIdle /\ ParamsIdle /\ LastIdle
    /\ TokenIdle /\ AuthzIdle /\ PkceIdle /\ RegIdle /\ ConstructIdle /\ ObjectIdle

NextDiscovery == DiscoveryPostParse

SpecDiscovery == InitDiscovery /\ [][NextDiscovery]_vars

-----------------------------------------------------------------------------
(* An authorization request built with a request object asked for *)

InitWrap ==
    /\ a_request_args \in WrapArgsInputs
    /\ a_kwargs \in WrapKwargsInputs
    /\ a_called = FALSE /\ a_areq = EmptyDict /\ a_err = "none" /\ LastIdle
    /\ behaviour \in WrapBehaviourInputs
    /\ client_prefs = EmptyDict /\ pcr = EmptyDict
    /\ m_called = FALSE /\ m_err = "none" /\ m_errpref = "" /\ m_allok = TRUE
    /\ m_repeated = FALSE
    /\ RequestInitIdle /\ ThreadsIdle /\ ParamsIdle /\ DiscIdle
    /\ TokenIdle /\ PkceIdle /\ RegIdle /\ ConstructIdle /\ ObjectIdle

NextWrap == ConstructWithObject

SpecWrap == InitWrap /\ [][NextWrap]_vars

-----------------------------------------------------------------------------
(* A userinfo response processed *)

InitUserInfo ==
    /\ ui \in {NoUserInfo(resp) : resp \in UserInfoResponses}
    /\ a_keys = <<>>
    /\ RequestInitIdle /\ ThreadsIdle /\ ParamsIdle /\ DiscIdle
    /\ MatchIdle /\ TokenIdle /\ AuthzIdle
    /\ PkceIdle /\ RegIdle /\ ConstructIdle /\ ObjectIdle

NextUserInfo == UserInfoPostParse

SpecUserInfo == InitUserInfo /\ [][NextUserInfo]_vars

-----------------------------------------------------------------------------
(* Properties of AccessToken response processing (SpecToken) *)

\* the last response carried an ID token with a nonce, for a state that has
\* a nonce stored
BothNonces(resp, s2n, st) ==
    /\ "id_token" \in DOMAIN resp
    /\ st \in DOMAIN s2n
    /\ "nonce" \in DOMAIN resp["id_token"]

\* C1: when the response carries an ID token with a nonce and a nonce is
\* stored for the state, processing fails with ParameterError if the two
\* differ and completes without error if they are equal.
C1_NonceChecked ==
    (t_called /\ BothNonces(t_resp, state2nonce, t_state)) =>
        IF state2nonce[t_state] # t_resp["id_token"]["nonce"]
        THEN t_err = "ParameterError"
        ELSE t_err = "none"

\* a response whose ID token echoes another nonce than the stored one was refused
C1_Witness ==
    /\ t_called
    /\ BothNonces(t_resp, state2nonce, t_state)
    /\ state2nonce[t_state] # t_resp["id_token"]["nonce"]
    /\ t_err = "ParameterError"

\* C2: when the response has no ID token, or no nonce is stored for the
\* state, or the ID token has no nonce, processing completes without error
\* and leaves the stored nonces as they were.
C2_AbsentSideTolerated ==
    [][ (t_called' /\ ~BothNonces(t_resp', state2nonce, t_state')) =>
            (t_err' = "none" /\ state2nonce' = state2nonce) ]_vars

\* an ID token with a nonce was accepted for a state that has no nonce stored,
\* while another state has one
C2_Witness ==
    /\ t_called
    /\ "id_token" \in DOMAIN t_resp
    /\ "nonce" \in DOMAIN t_resp["id_token"]
    /\ t_state \notin DOMAIN state2nonce
    /\ state2nonce # EmptyDict
    /\ t_err = "none"

-----------------------------------------------------------------------------
(* Properties of Authorization request construction (SpecAuthz) *)

\* the caller gave a nonce
NonceSupplied == a_request_args.given /\ "nonce" \in DOMAIN a_request_args.args

\* the caller gave a response_type that holds token or id_token, in
\* request_args or as a keyword argument
TokenBearing ==
    \/ /\ a_request_args.given
       /\ "response_type" \in DOMAIN a_request_args.args
       /\ AsksToken(a_request_args.args["response_type"])
    \/ /\ "response_type" \in DOMAIN a_kwargs
       /\ AsksToken(a_kwargs["response_type"])

\* the caller gave nothing at all: no request_args and no response_type
NothingGiven == ~a_request_args.given /\ "response_type" \notin DOMAIN a_kwargs

\* C3: a construct call without a nonce, with a response_type (in
\* request_args or as an option) that contains token or id_token, or with no
\* request_args at all, yields a record with a non-empty nonce; a nonce the
\* caller supplied is not replaced.  ("No request_args at all" is read the
\* narrow way, as a call that gives no response_type option either: what
\* fails this fails the wider reading too.)
C3_NonceAlwaysPresent ==
    (a_called /\ a_err = "none") =>
        /\ NonceSupplied =>
              /\ "nonce" \in DOMAIN a_areq
              /\ a_areq["nonce"] = a_request_args.args["nonce"]
        /\ (~NonceSupplied /\ (TokenBearing \/ NothingGiven)) =>
              /\ "nonce" \in DOMAIN a_areq
              /\ a_areq["nonce"] # ""

-----------------------------------------------------------------------------
(* Properties of preference matching (SpecMatch) *)

\* the known preferences the client declares
Declared == DOMAIN client_prefs \cap KnownPrefs

\* the values a preference value holds
ValuesOf(val) == Range(val.v)

\* the call that ended with (err, errpref) got as far as preference P in its
\* first loop: it did not raise at an earlier entry of PREFERENCE2PROVIDER
Reached(err, errpref, P) ==
    ~(err = "ConfigurationError" /\ PrefIndex(errpref) < PrefIndex(P))

\* the provider of configuration p supports none of the values the client
\* declares for P
NoneSupported(p, P) ==
    /\ p[ProviderOf(P)].present
    /\ ValuesOf(client_prefs[P]) # {}
    /\ ValuesOf(client_prefs[P]) \cap p[ProviderOf(P)].vals = {}

\* the behaviour entry of P is one the current provider configuration allows
Supported(P) ==
    LET b == behaviour[P]
        cap == pcr[ProviderOf(P)]
    IN  \/ /\ cap.present
           /\ b.t \in {"str", "list"}
           /\ ValuesOf(b) \subseteq ValuesOf(client_prefs[P]) \cap cap.vals
        \/ P \in DOMAIN PROVIDER_DEFAULT /\ b = Str(PROVIDER_DEFAULT[P])
        \/ b = None
        \/ b = List(<<>>)

\* C4: after any sequence of successful match_preferences calls, every
\* behaviour entry of a known preference holds only values the client
\* declared and the provider of the most recent call advertised, or the
\* hardcoded default, or is empty or null.
C4_BehaviourSupported ==
    (m_called /\ m_allok) => \A P \in DOMAIN behaviour \cap KnownPrefs : Supported(P)

\* C5: when the provider advertises a capability list that contains none of
\* the values the client declares for a known preference, match_preferences
\* fails with ConfigurationError naming such a preference, whatever the
\* preference's type and whatever behaviour held before.
C5_UnmatchedRaises ==
    m_called =>
        \A P \in Declared :
            NoneSupported(pcr, P) =>
                /\ m_err = "ConfigurationError"
                /\ m_errpref \in {Q \in Declared : NoneSupported(pcr, Q)}

\* C6: a match_preferences call with the provider configuration of the call
\* before it leaves behaviour as that call left it, and fails exactly when
\* that call failed.
C6_Idempotent ==
    [][ (m_called /\ m_called' /\ pcr' = pcr) =>
            /\ behaviour' = behaviour
            /\ (m_err' = "none") <=> (m_err = "none") ]_vars

\* the same provider configuration was matched twice in a row and a list
\* preference was resolved to a non-empty list
C6_Witness ==
    /\ m_repeated
    /\ m_err = "none"
    /\ "response_types" \in DOMAIN behaviour
    /\ behaviour["response_types"].t = "list"
    /\ behaviour["response_types"].v # <<>>

\* the behaviour entry of P is the same before and after the step
EntryUnchanged(P) ==
    /\ (P \in DOMAIN behaviour') <=> (P \in DOMAIN behaviour)
    /\ P \in DOMAIN behaviour => behaviour'[P] = behaviour[P]

\* the first position of vals that holds a value of pv
FirstSupported(vals, pv) ==
    CHOOSE i \in 1..Len(vals) : vals[i] \in pv /\ \A j \in 1..(i - 1) : vals[j] \notin pv

\* C7: for a known preference with a scalar-typed registration field, a
\* sequence preference resolves to its first element, in the client's order,
\* that the provider's list contains; a single-string preference is written
\* to behaviour exactly when the provider's list contains it.
C7_ScalarFirstMatch ==
    [][ m_called' =>
          \A P \in Declared \ RegListParams :
              (pcr'[ProviderOf(P)].present /\ Reached(m_err', m_errpref', P)) =>
                  LET vals == client_prefs[P]
                      pv == pcr'[ProviderOf(P)].vals
                  IN  IF vals.t = "list"
                      THEN ValuesOf(vals) \cap pv # {} =>
                              behaviour'[P] = Str(vals.v[FirstSupported(vals.v, pv)])
                      ELSE IF vals.v[1] \in pv
                           THEN behaviour'[P] = vals
                           ELSE EntryUnchanged(P) ]_vars

\* [client_secret_post, client_secret_basic] against a provider that supports
\* client_secret_basic only resolved to client_secret_basic
C7_Witness ==
    /\ m_called
    /\ "token_endpoint_auth_method" \in DOMAIN client_prefs
    /\ client_prefs["token_endpoint_auth_method"]
          = List(<<"client_secret_post", "client_secret_basic">>)
    /\ pcr["token_endpoint_auth_methods_supported"].present
    /\ pcr["token_endpoint_auth_methods_supported"].vals = {"client_secret_basic"}
    /\ behaviour["token_endpoint_auth_method"] = Str("client_secret_basic")

\* the subsequence of vals whose elements are in pv
RECURSIVE Subsequence(_, _)
Subsequence(vals, pv) ==
    IF vals = <<>> THEN <<>>
    ELSE IF Head(vals) \in pv THEN <<Head(vals)>> \o Subsequence(Tail(vals), pv)
    ELSE Subsequence(Tail(vals), pv)

\* C8: for a known preference with a sequence-typed registration field and a
\* sequence preference, behaviour holds exactly the subsequence of the
\* client's values that the provider's list contains, in the client's order,
\* whatever an earlier match left.
C8_SequenceFiltered ==
    m_called =>
        \A P \in Declared \cap RegListParams :
            (/\ client_prefs[P].t = "list"
             /\ pcr[ProviderOf(P)].present
             /\ Reached(m_err, m_errpref, P)) =>
                behaviour[P] = List(Subsequence(client_prefs[P].v, pcr[ProviderOf(P)].vals))

\* a two-element preference in the order (post, basic) was matched twice and
\* the last provider supported both values
C8_Witness ==
    /\ m_called
    /\ m_repeated
    /\ "response_types" \in DOMAIN client_prefs
    /\ client_prefs["response_types"] = List(<<"client_secret_post", "client_secret_basic">>)
    /\ pcr["response_types_supported"].present
    /\ pcr["response_types_supported"].vals = Atoms
    /\ behaviour["response_types"] = List(<<"client_secret_post", "client_secret_basic">>)

Extra == DOMAIN client_prefs \ KnownPrefs

\* the registration schema has the name and types it as a scalar
ScalarField(key) == key \in RegParams \ RegListParams

\* C10 as stated: after a successful call every preference outside the table
\* is in behaviour, verbatim, except that a one-element sequence for a
\* scalar field is collapsed to its element; longer sequences and
\* preferences without a schema entry are copied unchanged.
C10_CopiedVerbatim ==
    (m_called /\ m_err = "none") =>
        \A key \in Extra :
            /\ key \in DOMAIN behaviour
            /\ behaviour[key] =
                  IF /\ ScalarField(key)
                     /\ client_prefs[key].t = "list"
                     /\ Len(client_prefs[key].v) = 1
                  THEN Str(client_prefs[key].v[1])
                  ELSE client_prefs[key]

\* C10 amended: after a successful call every preference outside the table
\* is in behaviour: a non-empty sequence for a scalar field as its first
\* element, whatever its length, and everything else verbatim; an empty
\* sequence for a scalar field makes the call fail with IndexError, and the
\* preference is not copied; the preferences of the table are all in
\* behaviour before the copying starts, so that none of them is copied.
C10_CopiedFirstElement ==
    m_called =>
        /\ \A key \in Extra \cap DOMAIN behaviour :
              IF ScalarField(key) /\ client_prefs[key].t = "list"
              THEN /\ client_prefs[key].v # <<>>
                   /\ behaviour[key] = Str(client_prefs[key].v[1])
              ELSE behaviour[key] = client_prefs[key]
        /\ m_err = "none" => Extra \subseteq DOMAIN behaviour
        /\ m_err = "IndexError" =>
              /\ m_errpref \in Extra \ DOMAIN behaviour
              /\ ScalarField(m_errpref)
              /\ client_prefs[m_errpref] = List(<<>>)
        /\ m_err = "none" =>
              \A key \in Extra : ~(ScalarField(key) /\ client_prefs[key] = List(<<>>))
        /\ m_err # "ConfigurationError" => Declared \subseteq DOMAIN behaviour

\* a two-element sequence for the scalar field application_type was copied as
\* its first element
C10_Witness ==
    /\ m_called
    /\ m_err = "none"
    /\ "application_type" \in DOMAIN client_prefs
    /\ client_prefs["application_type"] = List(<<"client_secret_post", "client_secret_basic">>)
    /\ behaviour["application_type"] = Str("client_secret_post")

-----------------------------------------------------------------------------
(* PKCE *)

\* BASE64URL(hash(ASCII(code_verifier))) of RFC 7636, on the raw digest
RFC7636_S256(code_verifier) == b64e(hash_method("S256", Encode(code_verifier)))

PkceSucceeded == p_called /\ p_err = NoError

\* C11: with method S256 the returned code_challenge is the base64url
\* encoding of the raw hash digest of the verifier (RFC 7636) and the returned
\* code_challenge_method is the selected method
C11_S256RawDigest ==
    (PkceSucceeded /\ CcMethod(config) = "S256") =>
        /\ p_ret["code_challenge"] = RFC7636_S256(p_verifier)
        /\ p_ret["code_challenge_method"] = "S256"

\* the records of the states other than s are what they were in db
OthersUnchanged(db, s) ==
    \A o \in PStates \ {s} :
        /\ (o \in DOMAIN state_db) = (o \in DOMAIN db)
        /\ (o \in DOMAIN db) => state_db[o] = db[o]

NoSetting(name) ==
    ~("code_challenge" \in DOMAIN config /\ name \in DOMAIN config["code_challenge"])

\* C13: an unsupported method makes add_code_challenge fail with Unsupported
\* naming the method, return nothing and leave the state store as it was;
\* without a configured method S256 is used, without a configured length the
\* verifier has 64 characters
C13_UnsupportedWritesNothing ==
    p_called =>
        /\ (CcMethod(config) \notin CC_METHOD) =>
              /\ p_err = [err |-> "Unsupported", named |-> config["code_challenge"]["method"]]
              /\ p_ret = EmptyDict
              /\ state_db = p_before
        /\ NoSetting("method") =>
              /\ p_err = NoError
              /\ p_ret["code_challenge_method"] = "S256"
              /\ p_ret["code_challenge"] = code_challenge("S256", p_verifier)
        /\ NoSetting("length") => Len(p_verifier) = 64

\* the call failed for a state that has a record, with no length configured
C13_Witness ==
    /\ p_called /\ p_err.err = "Unsupported"
    /\ p_state \in DOMAIN state_db
    /\ NoSetting("length")

-----------------------------------------------------------------------------
(* Registration *)

\* C14: building a registration request fails with MissingRequiredAttribute
\* when redirect_uris is neither an explicit option nor in behaviour and the
\* ClientInfo has none; otherwise the request contains redirect_uris, those
\* of the ClientInfo when no other source supplied them
C14_RedirectUrisRequired ==
    rq_called =>
        IF /\ "redirect_uris" \notin DOMAIN rq_kwargs
           /\ "redirect_uris" \notin DOMAIN behaviour
           /\ "redirect_uris" \notin DOMAIN cli
        THEN rq_err = "MissingRequiredAttribute" /\ rq_req = EmptyDict
        ELSE /\ rq_err = "none"
             /\ "redirect_uris" \in DOMAIN rq_req
             /\ ("redirect_uris" \notin DOMAIN rq_kwargs
                 /\ "redirect_uris" \notin DOMAIN behaviour)
                   => rq_req["redirect_uris"] = cli["redirect_uris"]

\* no source has redirect_uris, though other parameters are supplied
C14_Witness ==
    /\ rq_called /\ rq_err = "MissingRequiredAttribute"
    /\ "application_type" \in DOMAIN rq_kwargs
    /\ "post_logout_redirect_uris" \in DOMAIN cli

\* C15: after a registration response is processed, registration_response
\* is the processed response and has token_endpoint_auth_method: the
\* provider's value when the response carried one, else client_secret_basic
C15_AuthMethodDefaulted ==
    rp_called =>
        /\ "registration_response" \in DOMAIN cli
        /\ cli["registration_response"] = rp_resp
        /\ \A k \in DOMAIN rp_given :
              k \in DOMAIN rp_resp /\ rp_resp[k] = rp_given[k]
        /\ DOMAIN rp_resp = DOMAIN rp_given \cup {"token_endpoint_auth_method"}
        /\ ("token_endpoint_auth_method" \notin DOMAIN rp_given)
              => rp_resp["token_endpoint_auth_method"] = "client_secret_basic"

\* the provider omitted the method in a response that is otherwise complete
C15_Witness ==
    /\ rp_called /\ rp_err = "none"
    /\ "token_endpoint_auth_method" \notin DOMAIN rp_given
    /\ "client_secret" \in DOMAIN rp_given

\* the attribute differs from what the call found
Changed(field) ==
    \/ (field \in DOMAIN cli) # (field \in DOMAIN rp_before)
    \/ field \in DOMAIN cli /\ cli[field] # rp_before[field]

\* the attribute holds the response's parameter
Holds(field, param) ==
    field \in DOMAIN cli /\ cli[field] = rp_given[param]

\* C16: processing a registration response sets client_id to the response's
\* and fails when the response has none; client_secret changes only when
\* the response carries one, registration_expires only when it carries both
\* client_secret and client_secret_expires_at, registration_access_token
\* only when it carries one; otherwise each keeps its value
C16_RegistrationBookkeeping ==
    rp_called =>
        /\ (rp_err = "none") = ("client_id" \in DOMAIN rp_given)
        /\ rp_err = "none" => Holds("client_id", "client_id")
        /\ rp_err # "none" => ~Changed("client_id")
        /\ Changed("client_secret") => "client_secret" \in DOMAIN rp_given
        /\ Changed("registration_expires") =>
              {"client_secret", "client_secret_expires_at"} \subseteq DOMAIN rp_given
        /\ Changed("registration_access_token") =>
              "registration_access_token" \in DOMAIN rp_given
        /\ rp_err = "none" =>
              /\ "client_secret" \in DOMAIN rp_given
                    => Holds("client_secret", "client_secret")
              /\ {"client_secret", "client_secret_expires_at"} \subseteq DOMAIN rp_given
                    => Holds("registration_expires", "client_secret_expires_at")
              /\ "registration_access_token" \in DOMAIN rp_given
                    => Holds("registration_access_token", "registration_access_token")

\* the response has an expiry but no secret: the configured expiry stays
C16_Witness ==
    /\ rp_called /\ rp_err = "none"
    /\ "client_secret_expires_at" \in DOMAIN rp_given
    /\ "client_secret" \notin DOMAIN rp_given
    /\ "registration_expires" \in DOMAIN cli
    /\ cli["registration_expires"] = SourceValue("registration_expires", "configured")

-----------------------------------------------------------------------------
(* UserInfo and ID token requests *)

\* the scope a UserInfo construct call asks the store for
AskedScope == IF "scope" \in DOMAIN u_kwargs THEN u_kwargs["scope"] ELSE "openid"

\* C17: UserInfo construct uses an access_token given in request_args as it
\* is, without asking the token store; otherwise it asks the store once, with
\* the caller's scope or 'openid', and the request carries that token's
\* access_token, or the call fails with MissingParameter and builds no
\* request when the store has no such token
C17_UserInfoToken ==
    u_called =>
        IF "access_token" \in DOMAIN u_request_args.args
        THEN /\ u_err = "none"
             /\ u_req["access_token"] = u_request_args.args["access_token"]
             /\ u_queries = <<>>
        ELSE /\ Len(u_queries) = 1
             /\ u_queries[1]["scope"] = AskedScope
             /\ IF AskedScope \in grant_db
                THEN /\ u_err = "none"
                     /\ u_req["access_token"] = Token(AskedScope).access_token
                ELSE u_err = "MissingParameter" /\ u_req = EmptyDict

\* the caller's token is used although the store holds one for the scope
C17_Witness ==
    /\ u_called /\ u_err = "none"
    /\ "access_token" \in DOMAIN u_request_args.args
    /\ AskedScope \in grant_db

\* the key a construct call puts the ID token under
AskedProp == IF "prop" \in DOMAIN i_kwargs THEN i_kwargs["prop"] ELSE "id_token"

\* C18: CheckSession, CheckID and EndSession construct put an ID token under
\* id_token, or under the key given as prop: a value request_args has there
\* is kept and the accessor is not consulted; otherwise the accessor's token
\* is put there, or the call fails with MissingParameter when it has none
C18_IdTokenPlaced ==
    i_class \in IdTokenRequests =>
        IF AskedProp \in DOMAIN i_request_args.args
        THEN /\ i_err = "none"
             /\ i_req[AskedProp] = i_request_args.args[AskedProp]
             /\ ~i_consulted
        ELSE /\ i_consulted
             /\ IF "id_token" \in DOMAIN id_tokens
                THEN i_err = "none" /\ i_req[AskedProp] = id_tokens["id_token"]
                ELSE i_err = "MissingParameter" /\ i_req = EmptyDict

\* EndSession keeps the caller's id_token_hint although a token is stored
C18_Witness ==
    /\ i_class = "EndSessionRequest" /\ i_err = "none"
    /\ AskedProp = "id_token_hint"
    /\ AskedProp \in DOMAIN i_request_args.args
    /\ "id_token" \in DOMAIN id_tokens

-----------------------------------------------------------------------------
(* Request objects *)

NoneNames(name) == name \notin DOMAIN e_kwargs /\ name \notin DOMAIN behaviour

\* C19: without an encryption algorithm in the options and in behaviour the
\* signed object is returned unchanged and no key is looked up; with an
\* algorithm (the option before behaviour) but without a content encryption
\* or without a target the call fails with MissingRequiredAttribute before
\* any encryption key is requested
C19_EncryptionPreconditions ==
    e_called =>
        IF NoneNames("request_object_encryption_alg")
        THEN e_err = "none" /\ e_out = SignedObject /\ e_keyreqs = <<>>
        ELSE IF NoneNames("request_object_encryption_enc")
                \/ "target" \notin DOMAIN e_kwargs
        THEN e_err = "MissingRequiredAttribute" /\ e_keyreqs = <<>>
        ELSE /\ e_err = "none"
             /\ e_out["alg"] = IF "request_object_encryption_alg" \in DOMAIN e_kwargs
                                THEN OptionAlg ELSE BehaviourAlg

\* algorithm and content encryption are there, the target is not
C19_Witness ==
    /\ e_called /\ e_err = "MissingRequiredAttribute"
    /\ ~NoneNames("request_object_encryption_alg")
    /\ ~NoneNames("request_object_encryption_enc")
    /\ "enc_kid" \in DOMAIN e_kwargs /\ e_kwargs["enc_kid"] # ""

\* C20: what construct_request_uri returns is (filename, url): the file name
\* is a random token of 10 characters followed by '.jwt', also after
\* collisions, no file exists at filename, and url is the base path followed
\* by that file name
C20_FreshJwtName ==
    f_pc = "done" =>
        /\ \E t \in [1..10 -> {"a", "b"}] :
              /\ f_ret[1] = PathJoin(LocalDir, t \o Jwt)
              /\ f_ret[2] = BasePath \o t \o Jwt
        /\ f_ret[1] \notin files

-----------------------------------------------------------------------------
(* Request initialisation *)

\* C21: when building an Authorization or AccessToken request fails, the
\* session store is what the attempt found: no code_verifier or
\* code_challenge_method written during the attempt remains
C21_FailureLeavesStore ==
    (dri.class # "" /\ dri.err # "none") => state_db = dri.before

\* C27: when PKCE is configured, every Authorization request that is built
\* carries code_challenge and code_challenge_method with the values
\* add_code_challenge returned for it, and a request is built also when the
\* caller supplies no request_args
C27_ChallengeCarried ==
    (/\ dri.class = "AuthorizationRequest"
     /\ "code_challenge" \in DOMAIN config
     /\ CcMethod(config) \in CC_METHOD)
    => /\ dri.err = "none" =>
            /\ {"code_challenge", "code_challenge_method"} \subseteq DOMAIN dri.req
            /\ \A k \in {"code_challenge", "code_challenge_method"} :
                  dri.req[k] = dri.pkce[k]
       /\ ~dri.request_args.given => dri.err = "none"

\* C28: after 'build the Authorization request for S with PKCE, then build
\* the AccessToken request for S', the code_verifier stored for S is the one
\* generated for the Authorization request: its transform equals the
\* code_challenge that request carried
C28_VerifierKept ==
    (/\ dri.class = "AccessTokenRequest"
     /\ dri.err = "none"
     /\ dri.state \in DOMAIN authz_sent)
    => /\ dri.state \in DOMAIN state_db
       /\ {"code_verifier", "code_challenge_method"} \subseteq DOMAIN state_db[dri.state]
       /\ code_challenge(state_db[dri.state]["code_challenge_method"],
                         state_db[dri.state]["code_verifier"])
            = authz_sent[dri.state]

-----------------------------------------------------------------------------
(* Concurrent response processing *)

AllDone == \A t \in Threads : threads[t].pc = "done"

Ran(kind) == {t \in Threads : threads[t].kind = kind}

\* the behaviour a whole match_preferences run on t's response leaves when
\* it starts from beh
WholeRun(t, beh) == match_preferences(client_prefs, beh, threads[t].pcr).behaviour

\* C22: under every interleaving of two concurrent Registration or
\* ProviderInfoDiscovery response-processing calls on one ClientInfo, once
\* both have completed client_id is the client_id of registration_response,
\* client_secret comes from that same response, and behaviour is the result
\* of one complete match_preferences run
C22_Serialized ==
    (threads # EmptyDict /\ AllDone)
    => /\ Ran("Registration") # {} =>
            /\ cli["client_id"] = cli["registration_response"]["client_id"]
            /\ "client_secret" \in DOMAIN cli["registration_response"] =>
                  cli["client_secret"] = cli["registration_response"]["client_secret"]
       /\ Ran("ProviderInfoDiscovery") # {} =>
            \E t \in Ran("ProviderInfoDiscovery") :
                \/ behaviour = WholeRun(t, EmptyDict)
                \/ \E u \in Ran("ProviderInfoDiscovery") \ {t} :
                      behaviour = WholeRun(t, WholeRun(u, EmptyDict))

-----------------------------------------------------------------------------
(* Request parameters *)

\* C23: AccessToken get_request_parameters places the client secret in
\* exactly one place: with client_secret_basic the result has an
\* Authorization header and no client_secret in the body, with
\* default_authn_method client_secret_post the body has client_secret and
\* the headers no Authorization entry; in both cases the result consists of
\* url, method, body and headers and the url is the configured endpoint
C23_SecretInOnePlace ==
    params.called
    => /\ DOMAIN params.ret = {"url", "method", "body", "headers"}
       /\ params.ret.url = params.endpoint
       /\ ("authn_method" \in DOMAIN params.kwargs
           /\ params.kwargs["authn_method"] = "client_secret_basic")
          => /\ "Authorization" \in DOMAIN params.ret.headers
             /\ "client_secret" \notin DOMAIN params.ret.body
       /\ ("authn_method" \notin DOMAIN params.kwargs
           /\ params.conf = [k \in {"default_authn_method"} |-> "client_secret_post"])
          => /\ "client_secret" \in DOMAIN params.ret.body
             /\ "Authorization" \notin DOMAIN params.ret.headers

\* a call that selected client_secret_basic by name has returned
C23_Witness ==
    /\ params.called
    /\ "authn_method" \in DOMAIN params.kwargs
    /\ params.kwargs["authn_method"] = "client_secret_basic"
    /\ "Authorization" \in DOMAIN params.ret.headers
    /\ "redirect_uri" \in DOMAIN params.ret.body

-----------------------------------------------------------------------------
(* Discovery response processing *)

\* C24: ProviderInfoDiscovery response processing runs match_preferences
\* first and the generic post-processing after it; when match_preferences
\* fails with ConfigurationError the generic post-processing is not run and
\* the error reaches the caller
C24_MatchBeforeGeneric ==
    disc.called
    => /\ disc.steps # <<>>
       /\ disc.steps[1] = "match_preferences"
       /\ \A i \in 2..Len(disc.steps) : disc.steps[i] = "_post_parse_response"
       /\ m_err = "none" => disc.steps = <<"match_preferences", "_post_parse_response">>
       /\ m_err = "ConfigurationError" =>
            /\ disc.steps = <<"match_preferences">>
            /\ disc.err = "ConfigurationError"

\* a response whose capabilities match none of a declared preference was
\* processed
C24_Witness ==
    /\ disc.called
    /\ m_err = "ConfigurationError"
    /\ disc.err = "ConfigurationError"
    /\ m_errpref \in DOMAIN client_prefs

-----------------------------------------------------------------------------
(* Registration parameters *)

\* what the two sources of the loop give for a schema parameter: the
\* explicit option, else behaviour's entry
Resolved(p) == IF p \in DOMAIN rq_kwargs THEN rq_kwargs[p] ELSE behaviour[p]

Sourced(p) == p \in DOMAIN rq_kwargs \/ p \in DOMAIN behaviour

Built == rq_called /\ rq_err = "none"

RequiresRequestUris ==
    /\ "require_request_uri_registration" \in DOMAIN cli["provider_info"]
    /\ cli["provider_info"]["require_request_uri_registration"] = TRUE

\* C25 as stated: every schema-defined parameter of the Registration request
\* is the explicit option, else behaviour's entry, else omitted, and
\* post_logout_redirect_uris is copied from ClientInfo only when neither
\* source supplied it
C25_PrecedenceEverywhere ==
    Built =>
        \A p \in RegParams :
            /\ Sourced(p) => (p \in DOMAIN rq_req /\ rq_req[p] = Resolved(p))
            /\ (~Sourced(p) /\ p # "post_logout_redirect_uris") => p \notin DOMAIN rq_req
            /\ (~Sourced(p) /\ p = "post_logout_redirect_uris") =>
                  IF p \in DOMAIN cli
                  THEN p \in DOMAIN rq_req /\ rq_req[p] = cli[p]
                  ELSE p \notin DOMAIN rq_req

\* C25: the request holds schema parameters only; request_uris is the
\* generated list when the provider requires request-URI registration;
\* every other parameter is the explicit option, else behaviour's entry;
\* redirect_uris and post_logout_redirect_uris are copied from ClientInfo
\* only when neither source supplied them; what no source has is omitted
C25_Precedence ==
    Built =>
        /\ DOMAIN rq_req \subseteq RegParams
        /\ \A p \in RegParams :
              IF p = "request_uris" /\ RequiresRequestUris
              THEN p \in DOMAIN rq_req /\ rq_req[p] \in RequestUris
              ELSE IF Sourced(p)
              THEN p \in DOMAIN rq_req /\ rq_req[p] = Resolved(p)
              ELSE IF p \in {"redirect_uris", "post_logout_redirect_uris"}
                      /\ p \in DOMAIN cli
              THEN p \in DOMAIN rq_req /\ rq_req[p] = cli[p]
              ELSE p \notin DOMAIN rq_req

\* a request was built where the option and behaviour both name a
\* parameter, behaviour alone names another, and ClientInfo's
\* post_logout_redirect_uris stood back for a supplied one
C25_Witness ==
    /\ Built
    /\ "application_type" \in DOMAIN rq_kwargs \cap DOMAIN behaviour
    /\ rq_req["application_type"] = rq_kwargs["application_type"]
    /\ "post_logout_redirect_uris" \in (DOMAIN behaviour \cap DOMAIN cli) \ DOMAIN rq_kwargs
    /\ rq_req["post_logout_redirect_uris"] = behaviour["post_logout_redirect_uris"]

-----------------------------------------------------------------------------
(* Authorization requests with a request object *)

\* C26: when Authorization construct is called with request_method, the
\* returned record is wrapped: with 'file' it carries request_uri and no
\* inline request, with any other mode it carries the object under request;
\* a signing key is requested only when the signing algorithm (the option,
\* else behaviour's request_object_signing_alg, else 'none') is not 'none'
C26_Wrapped ==
    (a_called /\ a_err = "none" /\ "request_method" \in DOMAIN a_kwargs)
    => /\ IF a_kwargs["request_method"] = "file"
          THEN "request_uri" \in DOMAIN a_areq /\ "request" \notin DOMAIN a_areq
          ELSE "request" \in DOMAIN a_areq
       /\ a_keys # <<>> <=> SigningAlg(a_kwargs, behaviour) # "none"

-----------------------------------------------------------------------------
(* UserInfo response processing *)

\* the claim sources of the response processed
SourcesOf(resp) ==
    IF "_claim_sources" \in DOMAIN resp THEN resp["_claim_sources"] ELSE <<>>

\* what source i of the response delivers
DeliveredBy(resp, i) ==
    LET spec == SourcesOf(resp)[i][2]
    IN  IF "JWT" \in DOMAIN spec THEN spec["JWT"] ELSE spec["endpoint"]

\* C29: UserInfo response processing succeeds on every parsed response:
\* with no claim sources both steps complete and leave the userinfo record
\* unchanged; with claim sources a mismatch between declared names and
\* delivered keys never fails, and every delivered key/value pair is in the
\* record afterwards, overwriting any earlier value
C29_AlwaysSucceeds ==
    ui.called
    => /\ ui.err = "none"
       /\ SourcesOf(ui.resp) = <<>> => ui.out = ui.resp
       /\ \A i \in 1..Len(SourcesOf(ui.resp)) :
             \A k \in DOMAIN DeliveredBy(ui.resp, i) :
                 /\ k \in DOMAIN ui.out
                 /\ ui.out[k] \in {DeliveredBy(ui.resp, j)[k] :
                                     j \in {n \in 1..Len(SourcesOf(ui.resp)) :
                                              k \in DOMAIN DeliveredBy(ui.resp, n)}}

=============================================================================
